---------------------------- MODULE Spec2Model ----------------------------
(***************************************************************************)
(* A model of xBake's bake operator, BakeSelectedMapsOperator.execute      *)
(* (src/source_code/__init__.py), and of the panel that offers it.         *)
(*                                                                         *)
(* execute is one straight-line Python function.  The model cuts it at the *)
(* renderer's blocking bake call, the one place where the environment      *)
(* decides the outcome: bpy.ops.object.bake either returns or raises       *)
(* RuntimeError.  execute has no try/except/finally, so a raise ends it.   *)
(*                                                                         *)
(* Host (Blender) behaviour the model relies on:                           *)
(*  - an object linked into bpy.context.collection is in the view layer;   *)
(*  - Object.copy() copies hide_render; Mesh.copy() copies the slots;      *)
(*  - assigning Object.active_material to an object without slots adds a   *)
(*    slot; active_material is the material of the first slot;             *)
(*  - removing the active object leaves no active object;                  *)
(*  - a Python attribute access on None raises AttributeError.             *)
(***************************************************************************)
EXTENDS Integers, Sequences, FiniteSets, TLC

\* The largest number of map types enabled in one run.
MaxEnabled == 2

\* Object locations have integer components in -MaxLoc..MaxLoc.
MaxLoc == 1

\* Object scales have integer components in 1..MaxScale.
MaxScale == 2

NoObj == "None"
NoMat == "NoMaterial"
NoType == "NoJob"

\* The two objects of the user's scene and the two transient copies.
OrigObjs == {"src", "tgt"}
DupObjs == {"srcDup", "tgtDup"}
Objs == OrigObjs \cup DupObjs

\* A variant of map_types with its first two entries exchanged.
map_types_swapped ==
    << "AO", "NORMAL", "CURVATURE", "UV", "POSITION", "WORLD_SPACE_NORMAL",
       "COMBINED", "SHADOW", "ROUGHNESS", "EMIT", "ENVIRONMENT", "DIFFUSE",
       "GLOSSY", "TRANSMISSION" >>

\* BakeSelectedMapsOperator.execute: map_types, by bake_type.
map_types ==
    << "NORMAL", "AO", "CURVATURE", "UV", "POSITION", "WORLD_SPACE_NORMAL",
       "COMBINED", "SHADOW", "ROUGHNESS", "EMIT", "ENVIRONMENT", "DIFFUSE",
       "GLOSSY", "TRANSMISSION" >>

MapTypeSet == {map_types[i] : i \in 1..Len(map_types)}

\* The test of lines 1039 and 1125.
\* The jobs that build their own shader graph and bake it as DIFFUSE.
DerivedTypes == {"CURVATURE", "WORLD_SPACE_NORMAL", "POSITION"}

IsUnlit(bake_type) ==
    bake_type \in {"NORMAL", "AO", "CURVATURE", "POSITION", "WORLD_SPACE_NORMAL", "UV"}

-----------------------------------------------------------------------------
(* Exact arithmetic for the transforms: a number is << n, d >> with d > 0  *)
(* in lowest terms, a vector is a triple of numbers.                       *)

RECURSIVE GCD(_, _)
GCD(a, b) == IF b = 0 THEN a ELSE GCD(b, a % b)

Abs(n) == IF n < 0 THEN -n ELSE n

Rat(n, d) ==
    LET g == GCD(Abs(n), Abs(d))
        sgn == IF d < 0 THEN -1 ELSE 1
    IN  << sgn * (n \div g), sgn * (d \div g) >>

RatAdd(x, y) == Rat(x[1] * y[2] + y[1] * x[2], x[2] * y[2])
RatSub(x, y) == Rat(x[1] * y[2] - y[1] * x[2], x[2] * y[2])
RatMul(x, y) == Rat(x[1] * y[1], x[2] * y[2])
RatInv(x) == Rat(x[2], x[1])
RatLess(x, y) == x[1] * y[2] < y[1] * x[2]
RatMin(x, y) == IF RatLess(y, x) THEN y ELSE x
RatMax(x, y) == IF RatLess(x, y) THEN y ELSE x

\* mathutils.Vector of three integers.
Vec3(a, b, c) == << Rat(a, 1), Rat(b, 1), Rat(c, 1) >>

\* The denominator of the 1e-6 of line 32.
EpsilonDen == 1000000

-----------------------------------------------------------------------------
(* Python strings: a string is the sequence of its characters.             *)

UpperChars == << "A", "B", "C", "D", "E", "F", "G", "H", "I", "J", "K", "L", "M", "N", "O", "P", "Q", "R", "S", "T", "U", "V", "W", "X", "Y", "Z" >>

LowerChars == << "a", "b", "c", "d", "e", "f", "g", "h", "i", "j", "k", "l", "m", "n", "o", "p", "q", "r", "s", "t", "u", "v", "w", "x", "y", "z" >>

DigitChars == {"0", "1", "2", "3", "4", "5", "6", "7", "8", "9"}

IsUpper(c) == \E i \in 1..Len(UpperChars) : UpperChars[i] = c

IsLower(c) == \E i \in 1..Len(LowerChars) : LowerChars[i] = c

\* A character of the class [a-zA-Z0-9].
IsAlnum(c) == IsUpper(c) \/ IsLower(c) \/ c \in DigitChars

lower_char(c) ==
    IF IsUpper(c)
    THEN LowerChars[CHOOSE i \in 1..Len(UpperChars) : UpperChars[i] = c]
    ELSE c

upper_char(c) ==
    IF IsLower(c)
    THEN UpperChars[CHOOSE i \in 1..Len(LowerChars) : LowerChars[i] = c]
    ELSE c

\* str.lower()
lower(str) == [i \in 1..Len(str) |-> lower_char(str[i])]

\* str.capitalize()
capitalize(str) ==
    IF str = << >> THEN str
    ELSE << upper_char(Head(str)) >> \o lower(Tail(str))

\* os.path.commonprefix([a, b])
RECURSIVE commonprefix(_, _)
commonprefix(a, b) ==
    IF a = << >> \/ b = << >> THEN << >>
    ELSE IF Head(a) # Head(b) THEN << >>
    ELSE << Head(a) >> \o commonprefix(Tail(a), Tail(b))

\* re.sub(r'[^a-zA-Z0-9]+$', '', str)
RECURSIVE strip_trailing_non_alnum(_)
strip_trailing_non_alnum(str) ==
    IF str = << >> THEN str
    ELSE IF IsAlnum(str[Len(str)]) THEN str
    ELSE strip_trailing_non_alnum(SubSeq(str, 1, Len(str) - 1))

\* str.split(c) for a one-character c: the sequence of the pieces.
RECURSIVE split(_, _)
split(str, c) ==
    IF \A i \in 1..Len(str) : str[i] # c THEN << str >>
    ELSE LET k == CHOOSE i \in 1..Len(str) :
                     str[i] = c /\ \A j \in 1..(i - 1) : str[j] # c
         IN  << SubSeq(str, 1, k - 1) >> \o split(SubSeq(str, k + 1, Len(str)), c)

\* str.replace(c, by) for a one-character c.
RECURSIVE replace(_, _, _)
replace(str, c, by) ==
    IF str = << >> THEN str
    ELSE (IF Head(str) = c THEN by ELSE << Head(str) >>)
            \o replace(Tail(str), c, by)

\* ''.join(word.capitalize() + "." for word in words)
RECURSIVE join_capitalized(_)
join_capitalized(words) ==
    IF words = << >> THEN << >>
    ELSE capitalize(Head(words)) \o << "." >> \o join_capitalized(Tail(words))

StartsWith(str, prefix) ==
    Len(prefix) <= Len(str) /\ SubSeq(str, 1, Len(prefix)) = prefix

\* os.path.join(a, b) on a POSIX host.
path_join(a, b) ==
    IF StartsWith(b, << "/" >>) THEN b
    ELSE IF a = << >> \/ a[Len(a)] = "/" THEN a \o b
    ELSE a \o << "/" >> \o b

\* The directory of the saved .blend file, which "//" stands for.
ProjectDir == << "/", "p", "r", "o", "j", "e", "c", "t", "/" >>

\* bpy.path.abspath(path)
abspath(path) ==
    IF StartsWith(path, << "/", "/" >>)
    THEN ProjectDir \o SubSeq(path, 3, Len(path))
    ELSE path

VARIABLES
    bake_settings,  \* scene.smart_bake_settings: read-only during a run
    scene,          \* the host's scene and data blocks
    run,            \* the locals of execute and its position
    hist,           \* what the run has done so far (observation only)
    pre,            \* the scene as it was before the operator was invoked
    cli             \* run_xbake.py: its inputs, position and output

vars == << bake_settings, scene, run, hist, pre, cli >>

-----------------------------------------------------------------------------
(* BakeSenseOutput.draw: the Bake button is drawn when a map type is enabled *)
(* and missingSource is false; line 410 assigns "missingsource", another     *)
(* name, so missingSource keeps the False of line 405.                       *)
isValidSelection(bs) == \E i \in 1..Len(map_types) : map_types[i] \in bs.enabled

missingSource(bs) == FALSE

BakeButtonOffered(bs) == isValidSelection(bs) /\ ~missingSource(bs)

\* A variant of islitmapOf with the opposite polarity: copies for lit runs.
islitmapOf_inverted(bs) ==
    \E i \in 1..Len(map_types) :
        map_types[i] \in bs.enabled /\ IsUnlit(map_types[i])

\* Lines 1036-1040.
islitmapOf(bs) ==
    ~ \E i \in 1..Len(map_types) :
          map_types[i] \in bs.enabled /\ IsUnlit(map_types[i])

\* The position of the first enabled map type at or after i (Len+1: none).
NextJob(bs, i) ==
    LET later == {j \in i..Len(map_types) : map_types[j] \in bs.enabled}
    IN  IF later = {} THEN Len(map_types) + 1
        ELSE CHOOSE j \in later : \A k \in later : j <= k

-----------------------------------------------------------------------------
(* Scene helpers.                                                          *)

\* Object.active_material with the default active slot.
ActiveMaterial(sc, o) ==
    IF Len(sc.materials[o]) = 0 THEN NoMat ELSE sc.materials[o][1]

\* o.active_material = m  (line 1116).
SetActiveMaterial(sc, o, m) ==
    [sc EXCEPT !.materials[o] =
        IF Len(@) = 0 THEN << m >> ELSE [@ EXCEPT ![1] = m]]

\* o.data.materials[0] = m  (lines 1220, 1260, 1517, 1754).
SetSlot0(sc, o, m) == [sc EXCEPT !.materials[o] = [@ EXCEPT ![1] = m]]

\* o.data.materials.clear(); o.data.materials.append(m)  (1479-1480, 1717-1718).
ClearAndAppend(sc, o, m) == [sc EXCEPT !.materials[o] = << m >>]

\* f"{obj.name}_Material"
NewMaterialName(o) == o \o "_Material"

(* Lines 1104-1112 and 1165-1173: make sure obj has a material; the result *)
(* is the scene and the material the run calls mat.                        *)
EnsureMaterial(sc, o) ==
    IF Len(sc.materials[o]) = 0 \/ ActiveMaterial(sc, o) = NoMat
    THEN [sc |-> [sc EXCEPT !.materials[o] =
                        IF Len(@) = 0 THEN << NewMaterialName(o) >>
                        ELSE [@ EXCEPT ![1] = NewMaterialName(o)],
                     !.matData = @ \cup {NewMaterialName(o)}],
          mat |-> NewMaterialName(o)]
    ELSE [sc |-> sc, mat |-> ActiveMaterial(sc, o)]

(* The selection loop of lines 1063-1070 and 1133-1140: over the objects of *)
(* the view layer, source and target are selected, target is made active,   *)
(* everything else is deselected.                                           *)
SelectSourceTarget(sc, source, target) ==
    [sc EXCEPT !.selected = {o \in sc.inLayer : o = source \/ o = target},
               !.active = IF target \in sc.inLayer /\ target # source
                          THEN target ELSE @]

\* Lines 1081-1087: the other selected object when exactly two are selected.
NonActiveObj(sc) ==
    IF Cardinality(sc.selected) = 2 /\ \E o \in sc.selected : o # sc.active
    THEN CHOOSE o \in sc.selected : o # sc.active
    ELSE NoObj

\* bpy.data.objects.remove(o)
RemoveObject(sc, o) ==
    [sc EXCEPT !.objects = @ \ {o},
               !.inLayer = @ \ {o},
               !.selected = @ \ {o},
               !.active = IF @ = o THEN NoObj ELSE @,
               !.hide_render[o] = FALSE,
               !.materials[o] = << >>]

\* Lines 1046-1048 / 1050-1052: copy the object and its mesh, link the copy.
Duplicate(sc, orig, dup) ==
    [sc EXCEPT !.objects = @ \cup {dup},
               !.inLayer = @ \cup {dup},
               !.hide_render[dup] = sc.hide_render[orig],
               !.materials[dup] = sc.materials[orig],
               !.bound_box[dup] = sc.bound_box[orig],
               !.transform[dup] = sc.transform[orig]]

-----------------------------------------------------------------------------
(* The initial states: a configuration and a scene.                        *)

EnabledSets == {s \in SUBSET MapTypeSet : Cardinality(s) <= MaxEnabled}

\* BakeSettings.forward_axis / up_axis: the items of the two enums.
Axes == {"POS_Y", "NEG_Y", "POS_X", "NEG_X", "POS_Z", "NEG_Z"}

\* BakeSettings with the defaults of its properties, both objects chosen.
DefaultSettings ==
    [enabled |-> {},
     selected_to_active |-> TRUE,
     single_object |-> FALSE,
     source_object |-> "src",
     target_object |-> "tgt",
     forward_axis |-> "POS_Y",
     up_axis |-> "POS_Z",
     naming_uppercase |-> FALSE,
     naming_lowercase |-> TRUE,
     naming_pascalcase |-> FALSE,
     naming_separator |-> << "_" >>,
     mapname_separator |-> << "_" >>,
     use_custom_name |-> FALSE,
     use_custom_path |-> FALSE,
     custom_name |-> << "c", "u", "s", "t", "o", "m", "_", "n", "a", "m", "e" >>,
     use_object_folder |-> TRUE,
     use_subfolder |-> TRUE,
     subfolder_name |-> << "b", "a", "k", "e", "d", "_", "m", "a", "p", "s" >>,
     automatic_output_path |-> TRUE,
     direct |-> TRUE,
     indirect |-> TRUE,
     custom_output_path |-> FALSE,
     bake_path |-> << >>,
     margin_percentage |-> 10,
     resolution |-> 1024]

\* Object.bound_box of the meshes: the two opposite corners, in local space.
MeshBox == [lo |-> Vec3(-1, -1, 0), hi |-> Vec3(1, 1, 2)]

\* An object at the origin with unit scale.
RestTransform == [location |-> Vec3(0, 0, 0), scale |-> Vec3(1, 1, 1)]

\* The transforms of an unrotated, unparented object within the bounds.
Transforms ==
    {[location |-> Vec3(l[1], l[2], l[3]), scale |-> Vec3(k[1], k[2], k[3])] :
        l \in (-MaxLoc..MaxLoc) \X (-MaxLoc..MaxLoc) \X (-MaxLoc..MaxLoc),
        k \in (1..MaxScale) \X (1..MaxScale) \X (1..MaxScale)}

\* The names of a high-poly source and of its low-poly target.
RockNames == << << "R", "o", "c", "k", "_", "H", "i", "g", "h" >>, << "R", "o", "c", "k", "_", "L", "o", "w" >> >>

\* A source and a target of which one name begins the other.
PropNames == << << "P", "r", "o", "p", "0", "1", "_", "h", "p" >>, << "P", "r", "o", "p", "0", "1" >> >>

\* What Object.copy() appends to the name of the copy.
CopySuffix == << ".", "0", "0", "1" >>

(* The scene before the operator is invoked; dirs are the directories made *)
(* so far, bake_margin is empty until the add-on sets render.bake.margin.  *)
(* original_data (line 1824) is kept with it, by object: empty, or  *)
(* the one record stored.                                                  *)
SceneOf(hidden, srcMat, tgtMat, tgtInLayer, priorActive, tgtTransform, names) ==
    [objects |-> OrigObjs,
     name |-> [o \in Objs |->
                 IF o = "src" THEN names[1]
                 ELSE IF o = "tgt" THEN names[2]
                 ELSE IF o = "srcDup" THEN names[1] \o CopySuffix
                 ELSE names[2] \o CopySuffix],
     dirs |-> {},
     bake_margin |-> << >>,
     inLayer |-> IF tgtInLayer THEN OrigObjs ELSE {"src"},
     selected |-> IF priorActive = NoObj THEN {} ELSE {priorActive},
     active |-> priorActive,
     hide_render |-> [o \in Objs |-> o \in OrigObjs /\ hidden],
     materials |-> [o \in Objs |->
                      IF o = "src" THEN srcMat
                      ELSE IF o = "tgt" THEN tgtMat ELSE << >>],
     matData |-> {srcMat[i] : i \in 1..Len(srcMat)}
                     \cup {tgtMat[i] : i \in 1..Len(tgtMat)},
     images |-> {},
     imgNodes |-> {},
     engine |-> "BLENDER_EEVEE",
     use_selected_to_active |-> FALSE,
     use_pass_direct |-> TRUE,
     use_pass_indirect |-> TRUE,
     bound_box |-> [o \in Objs |-> MeshBox],
     transform |-> [o \in Objs |->
                      IF o = "tgt" THEN tgtTransform ELSE RestTransform],
     original_data |-> [o \in Objs |-> << >>]]

\* The locals of execute before it is entered.
\* The subtract nodes of a graph and the link into the second input of
\* each: none before the graph is built.
MathNodes == {"math_node_x", "math_node_y", "math_node_z"}

NoLinks == [n \in MathNodes |-> << >>]

IdleRun ==
    [pc |-> "idle", idx |-> 0, islitmap |-> TRUE,
     source |-> NoObj, target |-> NoObj,
     sourceref |-> NoObj, targetref |-> NoObj,
     obj |-> NoObj, non_active_obj |-> NoObj, user_obj |-> NoObj,
     mat |-> NoMat, original_material |-> NoMat,
     copydestroyed |-> FALSE, default_engine |-> "unset",
     in_forward_node |-> "unset", in_right_node |-> "unset",
     in_up_node |-> "unset",
     math_node_inputs |-> NoLinks]

EmptyHist ==
    [started |-> << >>, bakeCalls |-> << >>, saved |-> << >>,
     restored |-> << >>, failedJob |-> NoType, report |-> "none",
     created |-> << >>, removed |-> << >>, axes |-> << >>,
     outputs |-> << >>, written |-> << >>, combine |-> << >>,
     passes |-> << >>, activated |-> << >>,
     runs |-> 1, before_normalize |-> [o \in Objs |-> << >>],
     reverts |-> << >>]

\* A configuration from settings, a scene from scenes, execute not entered.
\* The add-on is used from the panel: run_xbake.py is not running.
NoCLI ==
    [pc |-> "none", args |-> FALSE, lowpoly_file |-> "mesh",
     highpoly_file |-> "mesh", text_block |-> FALSE,
     usemayaorientation |-> FALSE, lowpoly |-> NoObj, highpoly |-> NoObj,
     printed |-> << >>, bake_calls |-> 0]

InitOf(settings, scenes) ==
    /\ bake_settings \in settings
    /\ scene \in scenes
    /\ pre = scene
    /\ run = IdleRun
    /\ hist = EmptyHist
    /\ cli = NoCLI

(* The runs of Spec: any set of at most MaxEnabled map types, either mode,  *)
(* each object chosen or not; the axes are the defaults.                    *)
RunSettings ==
    {[DefaultSettings EXCEPT !.enabled = e,
                             !.selected_to_active = s2a,
                             !.single_object = ~s2a,
                             !.source_object = so,
                             !.target_object = to] :
        e \in EnabledSets, s2a \in BOOLEAN,
        so \in {"src", NoObj}, to \in {"tgt", NoObj}}

RunScenes ==
    {SceneOf(hidden, srcMat, tgtMat, tgtInLayer, priorActive, RestTransform,
             RockNames) :
        hidden \in BOOLEAN, srcMat \in {<< >>, << "M_src" >>},
        tgtMat \in {<< >>, << "M_tgt" >>}, tgtInLayer \in BOOLEAN,
        priorActive \in {NoObj, "src"}}

Init == InitOf(RunSettings, RunScenes)

(* The runs of SpecAxes: every (forward, up) pair, with the map types that  *)
(* read the axes enabled, in both modes, on one scene.                      *)
AxisSettings ==
    {[DefaultSettings EXCEPT !.enabled = e,
                             !.selected_to_active = s2a,
                             !.single_object = ~s2a,
                             !.forward_axis = f,
                             !.up_axis = u] :
        e \in {{"WORLD_SPACE_NORMAL"}, {"POSITION"},
               {"POSITION", "WORLD_SPACE_NORMAL"}},
        s2a \in BOOLEAN, f \in Axes, u \in Axes}

AxisScenes ==
    {SceneOf(FALSE, << "M_src" >>, << "M_tgt" >>, TRUE, NoObj, RestTransform,
             RockNames)}

InitAxes == InitOf(AxisSettings, AxisScenes)

(* The runs of SpecPosition: the Position job alone and after the UV job,   *)
(* in both modes, the target with any transform within the bounds.          *)
(* The sessions of SpecToggles: the flags start at their defaults, one map *)
(* whose label is one word or two is enabled, and the separator inside the *)
(* label is one of four.                                                   *)
MapnameSeparators == {<< "_" >>, << "." >>, << >>, << "-", "-" >>}

ToggleSettings ==
    {[DefaultSettings EXCEPT !.enabled = e, !.mapname_separator = ms] :
        e \in {{"NORMAL"}, {"AO"}}, ms \in MapnameSeparators}

ToggleScenes ==
    {SceneOf(FALSE, << "M_src" >>, << "M_tgt" >>, TRUE, NoObj, RestTransform,
             RockNames)}

InitToggles == InitOf(ToggleSettings, ToggleScenes)

(* The runs of SpecNames: pairs of object names whose common beginning is   *)
(* a word followed by punctuation, a whole name, or nothing; either mode,  *)
(* source set or not, automatic or custom output, custom name or not.      *)
NamePairs ==
    {RockNames,
     PropNames,
     << << "W", "a", "l", "l", "_", "_", "a" >>, << "W", "a", "l", "l", "_", "_", "b" >> >>,
     << << "C", "r", "a", "t", "e" >>, << "B", "a", "r", "r", "e", "l" >> >>}

NameSettings ==
    {[DefaultSettings EXCEPT !.enabled = e,
                             !.selected_to_active = s2a,
                             !.single_object = ~s2a,
                             !.source_object = so,
                             !.automatic_output_path = auto,
                             !.custom_output_path = ~auto,
                             !.use_custom_name = ucn] :
        e \in {{"NORMAL"}, {"COMBINED"}}, s2a \in BOOLEAN,
        so \in {"src", NoObj}, auto \in BOOLEAN, ucn \in BOOLEAN}

NameScenes ==
    {SceneOf(FALSE, << "M_src" >>, << "M_tgt" >>, TRUE, NoObj, RestTransform,
             names) : names \in NamePairs}

InitNames == InitOf(NameSettings, NameScenes)

(* The runs of SpecOutput: one map type, the names of PropNames,           *)
(* any naming case (or none), within-label and name separators, and in     *)
(* custom mode any choice of custom name, defined path and folders.        *)
NamingCases ==
    {[upper |-> FALSE, lower |-> TRUE, pascal |-> FALSE],
     [upper |-> TRUE, lower |-> FALSE, pascal |-> FALSE],
     [upper |-> FALSE, lower |-> FALSE, pascal |-> TRUE],
     [upper |-> FALSE, lower |-> FALSE, pascal |-> FALSE]}

NamingSeparators == {<< "_" >>, << "-" >>}

\* "Define Path" with the directory it holds: absolute, relative to the
\* project, or left empty.
DefinedPaths ==
    {[use_custom_path |-> FALSE, bake_path |-> << >>],
     [use_custom_path |-> FALSE, bake_path |-> << "/", "o", "u", "t" >>],
     [use_custom_path |-> TRUE, bake_path |-> << "/", "o", "u", "t" >>],
     [use_custom_path |-> TRUE, bake_path |-> << "/", "/", "o", "u", "t" >>],
     [use_custom_path |-> TRUE, bake_path |-> << >>]}

NamedSettings ==
    {[DefaultSettings EXCEPT !.enabled = {t},
                             !.naming_uppercase = c.upper,
                             !.naming_lowercase = c.lower,
                             !.naming_pascalcase = c.pascal,
                             !.mapname_separator = ms,
                             !.naming_separator = ns] :
        t \in MapTypeSet, c \in NamingCases, ms \in MapnameSeparators,
        ns \in NamingSeparators}

OutputSettings ==
    NamedSettings \cup
    {[bs EXCEPT !.automatic_output_path = FALSE,
                !.custom_output_path = TRUE,
                !.use_custom_name = ucn,
                !.use_custom_path = dp.use_custom_path,
                !.bake_path = dp.bake_path,
                !.use_object_folder = uof,
                !.use_subfolder = usf] :
        bs \in NamedSettings, ucn \in BOOLEAN, dp \in DefinedPaths,
        uof \in BOOLEAN, usf \in BOOLEAN}

OutputScenes ==
    {SceneOf(FALSE, << "M_src" >>, << "M_tgt" >>, TRUE, NoObj, RestTransform,
             PropNames)}

InitOutput == InitOf(OutputSettings, OutputScenes)

(* The runs of SpecPaths: two map types, any naming case (or none), any    *)
(* within-label separator, automatic or custom output.                     *)
PathSettings ==
    {[bs EXCEPT !.enabled = e,
                !.automatic_output_path = auto,
                !.custom_output_path = ~auto] :
        bs \in {n \in NamedSettings : n.naming_separator = << "_" >>},
        e \in {s \in SUBSET MapTypeSet : Cardinality(s) = 2},
        auto \in BOOLEAN}

InitPaths == InitOf(PathSettings, OutputScenes)

\* SpecMargin starts from the default settings, nothing enabled.
InitMargin == InitOf({DefaultSettings}, OutputScenes)

(* What a file given on the command line holds: nothing at that path, a    *)
(* file the importer raises on, a file without a mesh, a file with one.    *)
FileKinds == {"missing", "unreadable", "no_mesh", "mesh"}

(* SpecCLI starts run_xbake.py in an empty scene with the default          *)
(* settings, for every kind of the two files, with or without "--", the    *)
(* text block and the Maya orientation.                                    *)
CLIInputs ==
    {[NoCLI EXCEPT !.pc = "start", !.args = a, !.lowpoly_file = lf,
                   !.highpoly_file = hf, !.text_block = tb,
                   !.usemayaorientation = maya] :
        a \in BOOLEAN, lf \in FileKinds, hf \in FileKinds, tb \in BOOLEAN,
        maya \in BOOLEAN}

InitCLI ==
    /\ bake_settings = DefaultSettings
    /\ scene = [SceneOf(FALSE, << "M_src" >>, << "M_tgt" >>, TRUE, NoObj,
                        RestTransform, RockNames)
                   EXCEPT !.objects = {}, !.inLayer = {}]
    /\ pre = scene
    /\ run = IdleRun
    /\ hist = EmptyHist
    /\ cli \in CLIInputs

PositionSettings ==
    {[DefaultSettings EXCEPT !.enabled = e,
                             !.selected_to_active = s2a,
                             !.single_object = ~s2a] :
        e \in {{"POSITION"}, {"UV", "POSITION"}}, s2a \in BOOLEAN}

PositionScenes ==
    {SceneOf(FALSE, << "M_src" >>, << "M_tgt" >>, TRUE, NoObj, t, RockNames) :
        t \in Transforms}

InitPosition == InitOf(PositionSettings, PositionScenes)

\* One or two map types, at least one of them derived, under each setting
\* of the direct and indirect contributions.
PassTypes == DerivedTypes \cup {"COMBINED", "DIFFUSE"}

PassSettings ==
    {[DefaultSettings EXCEPT !.enabled = e,
                             !.selected_to_active = s2a,
                             !.single_object = ~s2a,
                             !.direct = d,
                             !.indirect = i] :
        e \in {x \in SUBSET PassTypes :
                  Cardinality(x) \in {1, 2} /\ x \cap DerivedTypes # {}},
        s2a \in BOOLEAN, d \in BOOLEAN, i \in BOOLEAN}

PassScenes ==
    {SceneOf(FALSE, << "M_src" >>, << "M_tgt" >>, TRUE, NoObj, RestTransform,
             RockNames)}

InitPasses == InitOf(PassSettings, PassScenes)

\* A session of several runs with Position enabled, with and without UV.
InitRuns == InitOf(PositionSettings, PassScenes)

-----------------------------------------------------------------------------
(* execute, lines 1033-1119: everything before the job loop.               *)

\* Lines 1046-1060: the copies, the originals hidden, the copies' slots cleared.
MakeDuplicates(sc) ==
    LET withSrc == Duplicate(sc, "src", "srcDup")
        withBoth == Duplicate(withSrc, "tgt", "tgtDup")
    IN  [withBoth EXCEPT !.hide_render["src"] = TRUE,
                         !.hide_render["tgt"] = TRUE,
                         !.materials["srcDup"] = << >>,
                         !.materials["tgtDup"] = << >>]

\* The position after "if obj is None: ... return {'CANCELLED'}" (1076, 1151).
AfterNoActiveObject(r) == [r EXCEPT !.pc = "CANCELLED"]

Setup ==
    /\ run.pc = "idle"
    \* the button of the panel, or line 81 of run_xbake.py
    /\ \/ cli.pc = "none" /\ BakeButtonOffered(bake_settings)
       \/ cli.pc = "bake"
    /\ UNCHANGED << bake_settings, pre, cli >>
    /\ LET bs == bake_settings
           lit == islitmapOf(bs)
       IN
       IF ~lit /\ bs.source_object = NoObj
       THEN \* line 1046: None.copy() raises AttributeError
            /\ scene' = scene
            /\ run' = [run EXCEPT !.pc = "RAISED", !.islitmap = lit]
            /\ hist' = [hist EXCEPT !.report = "EXCEPTION"]
       ELSE IF ~lit /\ bs.target_object = NoObj
       THEN \* line 1050: None.copy() raises after the source copy was linked
            /\ scene' = Duplicate(scene, "src", "srcDup")
            /\ run' = [run EXCEPT !.pc = "RAISED", !.islitmap = lit,
                                  !.source = "srcDup"]
            /\ hist' = [hist EXCEPT !.report = "EXCEPTION",
                                    !.created = Append(@, "srcDup")]
       ELSE
       LET sc1 == IF lit THEN scene ELSE MakeDuplicates(scene)
           source == IF lit THEN bs.source_object ELSE "srcDup"
           target == IF lit THEN bs.target_object ELSE "tgtDup"
           sc2 == SelectSourceTarget(sc1, source, target)
           obj == sc2.active
           r1 == [run EXCEPT !.islitmap = lit, !.source = source,
                             !.target = target,
                             !.sourceref = IF lit THEN NoObj ELSE source,
                             !.targetref = IF lit THEN NoObj ELSE target,
                             !.obj = obj, !.user_obj = obj]
           h1 == [hist EXCEPT !.created =
                     IF lit THEN @ ELSE @ \o << "srcDup", "tgtDup" >>]
       IN
       IF obj = NoObj
       THEN /\ scene' = sc2
            /\ run' = AfterNoActiveObject(r1)
            /\ hist' = [h1 EXCEPT !.report = "ERROR"]
       ELSE
       LET non_active_obj == NonActiveObj(sc2)
           user_obj == IF non_active_obj # NoObj THEN non_active_obj ELSE obj
           sc3 == [sc2 EXCEPT
                     !.use_selected_to_active = bs.selected_to_active,
                     !.use_pass_direct = bs.direct,
                     !.use_pass_indirect = bs.indirect,
                     !.engine = "CYCLES"]
           em == EnsureMaterial(sc3, obj)
       IN
            /\ scene' = SetActiveMaterial(em.sc, user_obj, em.mat)
            /\ run' = [r1 EXCEPT !.non_active_obj = non_active_obj,
                                 !.user_obj = user_obj,
                                 !.default_engine = scene.engine,
                                 !.mat = em.mat,
                                 !.original_material = em.mat,
                                 !.copydestroyed = FALSE,
                                 !.idx = NextJob(bs, 1),
                                 !.pc = "loop"]
            \* line 1072: obj is the object active for the first phase
            /\ hist' = [h1 EXCEPT !.activated = Append(@, obj)]

-----------------------------------------------------------------------------
(* execute, lines 1121-1805: one pass of the job loop, cut at the bake call. *)

(* Lines 1317-1449: the outputs the WORLD_SPACE_NORMAL graph takes Forward, *)
(* Right and Up from, by forward_axis and up_axis.  "X", "Y", "Z" are the  *)
(* outputs of separate_xyz_node, "math_node_x" etc. those of the SUBTRACT   *)
(* nodes; printed records print(positionerrortext).                        *)
wsn_axis_nodes(forward_axis, up_axis) ==
    LET d == [in_forward_node |-> "Y", in_right_node |-> "X",
              in_up_node |-> "Z", printed |-> FALSE]
    IN
    CASE forward_axis = "POS_Y" ->
         (LET f == [d EXCEPT !.in_forward_node = "Y"] IN
         CASE up_axis = "POS_Y" -> [f EXCEPT !.in_up_node = "Y", !.printed = TRUE]
           [] up_axis = "NEG_Y" -> [f EXCEPT !.in_up_node = "math_node_y", !.printed = TRUE]
           [] up_axis = "POS_X" -> [f EXCEPT !.in_up_node = "X", !.in_right_node = "math_node_z"]
           [] up_axis = "NEG_X" -> [f EXCEPT !.in_up_node = "math_node_x", !.in_right_node = "Z"]
           [] up_axis = "POS_Z" -> [f EXCEPT !.in_up_node = "Z", !.in_right_node = "X"]
           [] up_axis = "NEG_Z" -> [f EXCEPT !.in_up_node = "math_node_z", !.in_right_node = "math_node_x"]
           [] OTHER -> f)
      [] forward_axis = "NEG_Y" ->
         (LET f == [d EXCEPT !.in_forward_node = "math_node_y"] IN
         CASE up_axis = "POS_Y" -> [f EXCEPT !.in_up_node = "Y", !.printed = TRUE]
           [] up_axis = "NEG_Y" -> [f EXCEPT !.in_up_node = "math_node_y", !.printed = TRUE]
           [] up_axis = "POS_X" -> [f EXCEPT !.in_up_node = "X", !.in_right_node = "Z"]
           [] up_axis = "NEG_X" -> [f EXCEPT !.in_up_node = "math_node_x", !.in_right_node = "math_node_z"]
           [] up_axis = "POS_Z" -> [f EXCEPT !.in_up_node = "Z", !.in_right_node = "math_node_x"]
           [] up_axis = "NEG_Z" -> [f EXCEPT !.in_up_node = "math_node_z", !.in_right_node = "X"]
           [] OTHER -> f)
      [] forward_axis = "POS_X" ->
         (LET f == [d EXCEPT !.in_forward_node = "X"] IN
         CASE up_axis = "POS_Y" -> [f EXCEPT !.in_up_node = "Y", !.in_right_node = "math_node_z"]
           [] up_axis = "NEG_Y" -> [f EXCEPT !.in_up_node = "math_node_y", !.in_right_node = "Z"]
           [] up_axis = "POS_X" -> [f EXCEPT !.in_up_node = "X", !.printed = TRUE]
           [] up_axis = "NEG_X" -> [f EXCEPT !.in_up_node = "math_node_x", !.printed = TRUE]
           [] up_axis = "POS_Z" -> [f EXCEPT !.in_up_node = "Z", !.in_right_node = "math_node_y"]
           [] up_axis = "NEG_Z" -> [f EXCEPT !.in_up_node = "math_node_z", !.in_right_node = "Y"]
           [] OTHER -> f)
      [] forward_axis = "NEG_X" ->
         (LET f == [d EXCEPT !.in_forward_node = "math_node_x"] IN
         CASE up_axis = "POS_Y" -> [f EXCEPT !.in_up_node = "Y", !.in_right_node = "Z"]
           [] up_axis = "NEG_Y" -> [f EXCEPT !.in_up_node = "math_node_y", !.in_right_node = "math_node_z"]
           [] up_axis = "POS_X" -> [f EXCEPT !.in_up_node = "X", !.printed = TRUE]
           [] up_axis = "NEG_X" -> [f EXCEPT !.in_up_node = "math_node_x", !.printed = TRUE]
           [] up_axis = "POS_Z" -> [f EXCEPT !.in_up_node = "Z", !.in_right_node = "Y"]
           [] up_axis = "NEG_Z" -> [f EXCEPT !.in_up_node = "math_node_z", !.in_right_node = "math_node_y"]
           [] OTHER -> f)
      [] forward_axis = "POS_Z" ->
         (LET f == [d EXCEPT !.in_forward_node = "Z"] IN
         CASE up_axis = "POS_Y" -> [f EXCEPT !.in_up_node = "Y", !.in_right_node = "math_node_x"]
           [] up_axis = "NEG_Y" -> [f EXCEPT !.in_up_node = "math_node_y", !.in_right_node = "X"]
           [] up_axis = "POS_X" -> [f EXCEPT !.in_up_node = "X", !.in_right_node = "Y"]
           [] up_axis = "NEG_X" -> [f EXCEPT !.in_up_node = "math_node_x", !.in_right_node = "math_node_y"]
           [] up_axis = "POS_Z" -> [f EXCEPT !.in_up_node = "Z", !.printed = TRUE]
           [] up_axis = "NEG_Z" -> [f EXCEPT !.in_up_node = "math_node_z", !.printed = TRUE]
           [] OTHER -> f)
      [] forward_axis = "NEG_Z" ->
         (LET f == [d EXCEPT !.in_forward_node = "math_node_z"] IN
         CASE up_axis = "POS_Y" -> [f EXCEPT !.in_up_node = "Y", !.in_right_node = "X"]
           [] up_axis = "NEG_Y" -> [f EXCEPT !.in_up_node = "math_node_y", !.in_right_node = "math_node_x"]
           [] up_axis = "POS_X" -> [f EXCEPT !.in_up_node = "X", !.in_right_node = "math_node_y"]
           [] up_axis = "NEG_X" -> [f EXCEPT !.in_up_node = "math_node_x", !.in_right_node = "Y"]
           [] up_axis = "POS_Z" -> [f EXCEPT !.in_up_node = "Z", !.printed = TRUE]
           [] up_axis = "NEG_Z" -> [f EXCEPT !.in_up_node = "math_node_z", !.printed = TRUE]
           [] OTHER -> f)
      [] OTHER -> d

\* A variant of position_axis_nodes that never prints the error text.
position_axis_nodes_silent(forward_axis, up_axis) ==
    [wsn_axis_nodes(forward_axis, up_axis) EXCEPT !.printed = FALSE]

\* Lines 1570-1702: the same choice in the POSITION graph.
position_axis_nodes(forward_axis, up_axis) ==
    LET d == [in_forward_node |-> "Y", in_right_node |-> "X",
              in_up_node |-> "Z", printed |-> FALSE]
    IN
    CASE forward_axis = "POS_Y" ->
         (LET f == [d EXCEPT !.in_forward_node = "Y"] IN
         CASE up_axis = "POS_Y" -> [f EXCEPT !.in_up_node = "Y", !.printed = TRUE]
           [] up_axis = "NEG_Y" -> [f EXCEPT !.in_up_node = "math_node_y", !.printed = TRUE]
           [] up_axis = "POS_X" -> [f EXCEPT !.in_up_node = "X", !.in_right_node = "math_node_z"]
           [] up_axis = "NEG_X" -> [f EXCEPT !.in_up_node = "math_node_x", !.in_right_node = "Z"]
           [] up_axis = "POS_Z" -> [f EXCEPT !.in_up_node = "Z", !.in_right_node = "X"]
           [] up_axis = "NEG_Z" -> [f EXCEPT !.in_up_node = "math_node_z", !.in_right_node = "math_node_x"]
           [] OTHER -> f)
      [] forward_axis = "NEG_Y" ->
         (LET f == [d EXCEPT !.in_forward_node = "math_node_y"] IN
         CASE up_axis = "POS_Y" -> [f EXCEPT !.in_up_node = "Y", !.printed = TRUE]
           [] up_axis = "NEG_Y" -> [f EXCEPT !.in_up_node = "math_node_y", !.printed = TRUE]
           [] up_axis = "POS_X" -> [f EXCEPT !.in_up_node = "X", !.in_right_node = "Z"]
           [] up_axis = "NEG_X" -> [f EXCEPT !.in_up_node = "math_node_x", !.in_right_node = "math_node_z"]
           [] up_axis = "POS_Z" -> [f EXCEPT !.in_up_node = "Z", !.in_right_node = "math_node_x"]
           [] up_axis = "NEG_Z" -> [f EXCEPT !.in_up_node = "math_node_z", !.in_right_node = "X"]
           [] OTHER -> f)
      [] forward_axis = "POS_X" ->
         (LET f == [d EXCEPT !.in_forward_node = "X"] IN
         CASE up_axis = "POS_Y" -> [f EXCEPT !.in_up_node = "Y", !.in_right_node = "math_node_z"]
           [] up_axis = "NEG_Y" -> [f EXCEPT !.in_up_node = "math_node_y", !.in_right_node = "Z"]
           [] up_axis = "POS_X" -> [f EXCEPT !.in_up_node = "X", !.printed = TRUE]
           [] up_axis = "NEG_X" -> [f EXCEPT !.in_up_node = "math_node_x", !.printed = TRUE]
           [] up_axis = "POS_Z" -> [f EXCEPT !.in_up_node = "Z", !.in_right_node = "math_node_y"]
           [] up_axis = "NEG_Z" -> [f EXCEPT !.in_up_node = "math_node_z", !.in_right_node = "Y"]
           [] OTHER -> f)
      [] forward_axis = "NEG_X" ->
         (LET f == [d EXCEPT !.in_forward_node = "math_node_x"] IN
         CASE up_axis = "POS_Y" -> [f EXCEPT !.in_up_node = "Y", !.in_right_node = "Z"]
           [] up_axis = "NEG_Y" -> [f EXCEPT !.in_up_node = "math_node_y", !.in_right_node = "math_node_z"]
           [] up_axis = "POS_X" -> [f EXCEPT !.in_up_node = "X", !.printed = TRUE]
           [] up_axis = "NEG_X" -> [f EXCEPT !.in_up_node = "math_node_x", !.printed = TRUE]
           [] up_axis = "POS_Z" -> [f EXCEPT !.in_up_node = "Z", !.in_right_node = "Y"]
           [] up_axis = "NEG_Z" -> [f EXCEPT !.in_up_node = "math_node_z", !.in_right_node = "math_node_y"]
           [] OTHER -> f)
      [] forward_axis = "POS_Z" ->
         (LET f == [d EXCEPT !.in_forward_node = "Z"] IN
         CASE up_axis = "POS_Y" -> [f EXCEPT !.in_up_node = "Y", !.in_right_node = "math_node_x"]
           [] up_axis = "NEG_Y" -> [f EXCEPT !.in_up_node = "math_node_y", !.in_right_node = "X"]
           [] up_axis = "POS_X" -> [f EXCEPT !.in_up_node = "X", !.in_right_node = "Y"]
           [] up_axis = "NEG_X" -> [f EXCEPT !.in_up_node = "math_node_x", !.in_right_node = "math_node_y"]
           [] up_axis = "POS_Z" -> [f EXCEPT !.in_up_node = "Z", !.printed = TRUE]
           [] up_axis = "NEG_Z" -> [f EXCEPT !.in_up_node = "math_node_z", !.printed = TRUE]
           [] OTHER -> f)
      [] forward_axis = "NEG_Z" ->
         (LET f == [d EXCEPT !.in_forward_node = "math_node_z"] IN
         CASE up_axis = "POS_Y" -> [f EXCEPT !.in_up_node = "Y", !.in_right_node = "X"]
           [] up_axis = "NEG_Y" -> [f EXCEPT !.in_up_node = "math_node_y", !.in_right_node = "math_node_x"]
           [] up_axis = "POS_X" -> [f EXCEPT !.in_up_node = "X", !.in_right_node = "math_node_y"]
           [] up_axis = "NEG_X" -> [f EXCEPT !.in_up_node = "math_node_x", !.in_right_node = "Y"]
           [] up_axis = "POS_Z" -> [f EXCEPT !.in_up_node = "Z", !.printed = TRUE]
           [] up_axis = "NEG_Z" -> [f EXCEPT !.in_up_node = "math_node_z", !.printed = TRUE]
           [] OTHER -> f)
      [] OTHER -> d

\* The choice of the job at hand.
\* links.new(output, node.inputs[1]): an input holds one link, the last made.
links_new(links, output, node) == [links EXCEPT ![node] = << output >>]

(* Lines 1302-1315 and 1555-1568: the three subtract nodes with first input *)
(* 1; the third link goes to math_node_y again, in both graphs.            *)
subtract_node_links ==
    links_new(links_new(links_new(NoLinks, "X", "math_node_x"),
                        "Y", "math_node_y"),
              "Z", "math_node_y")

(* Lines 1453-1455 and 1465-1467: in the WorldSpaceNormal graph each role   *)
(* passes a Map Range node and enters the Combine XYZ input of the same    *)
(* letter.                                                                 *)
wsn_combine_links(ax) ==
    [bake_type |-> "WORLD_SPACE_NORMAL",
     X |-> ax.in_right_node, Y |-> ax.in_forward_node, Z |-> ax.in_up_node]

\* A variant of position_combine_links with Right and Forward exchanged.
position_combine_links_exchanged(ax) ==
    [bake_type |-> "POSITION",
     X |-> ax.in_forward_node, Y |-> ax.in_right_node, Z |-> ax.in_up_node]

\* Lines 1705-1707: the Position graph links each role to Combine XYZ.
position_combine_links(ax) ==
    [bake_type |-> "POSITION",
     X |-> ax.in_right_node, Y |-> ax.in_forward_node, Z |-> ax.in_up_node]

job_axis_nodes(bs, bake_type) ==
    IF bake_type = "WORLD_SPACE_NORMAL"
    THEN wsn_axis_nodes(bs.forward_axis, bs.up_axis)
    ELSE position_axis_nodes(bs.forward_axis, bs.up_axis)

TempMaterial(bake_type) ==
    IF bake_type = "CURVATURE" THEN "Temp_Curvature_Material"
    ELSE IF bake_type = "WORLD_SPACE_NORMAL" THEN "Temp_WSN_Material"
    ELSE IF bake_type = "POSITION" THEN "Temp_POS_Material"
    ELSE NoMat

(* Lines 26-29: the bounding box in world space.  matrix_world of an       *)
(* unrotated, unparented object maps a corner c to location + scale * c,   *)
(* component by component.                                                 *)
bbox_world(sc, o) ==
    LET t == sc.transform[o]
        b == sc.bound_box[o]
        atLo == [i \in 1..3 |-> RatAdd(t.location[i], RatMul(t.scale[i], b.lo[i]))]
        atHi == [i \in 1..3 |-> RatAdd(t.location[i], RatMul(t.scale[i], b.hi[i]))]
        bbox_min == [i \in 1..3 |-> RatMin(atLo[i], atHi[i])]
        bbox_max == [i \in 1..3 |-> RatMax(atLo[i], atHi[i])]
    IN  [bbox_min |-> bbox_min,
         bbox_max |-> bbox_max,
         bbox_size |-> [i \in 1..3 |-> RatSub(bbox_max[i], bbox_min[i])]]

(* normalize_to_unit_cube(obj), lines 18-38: location and scale are         *)
(* recorded under the object's name, then scale is multiplied by           *)
(* 1 / max(size, 1e-6) and location is reduced by bbox_min * scale_factors. *)
normalize_to_unit_cube(sc, o) ==
    LET t == sc.transform[o]
        w == bbox_world(sc, o)
        scale_factors ==
            [i \in 1..3 |-> RatInv(RatMax(w.bbox_size[i], Rat(1, EpsilonDen)))]
    IN  [sc EXCEPT
           !.original_data[o] = << t >>,
           !.transform[o] =
               [location |-> [i \in 1..3 |->
                                RatSub(t.location[i],
                                       RatMul(w.bbox_min[i], scale_factors[i]))],
                scale |-> [i \in 1..3 |-> RatMul(t.scale[i], scale_factors[i])]]]

\* A variant of revert_normalization that forgets the record without using it.
revert_normalization_discarding(sc, o) ==
    [sc EXCEPT !.original_data[o] = << >>]

\* revert_normalization(obj), lines 40-52.
revert_normalization(sc, o) ==
    IF sc.original_data[o] = << >> THEN sc
    ELSE [sc EXCEPT !.transform[o] = sc.original_data[o][1],
                    !.original_data[o] = << >>]

\* A variant of UnhideOriginals that leaves the flags as they are.
UnhideOriginals_forgotten(sc) == sc

\* Lines 1149-1150 and 1813-1814.
UnhideOriginals(sc) ==
    [sc EXCEPT !.hide_render["src"] = FALSE, !.hide_render["tgt"] = FALSE]

(* Lines 1130-1144: source and target become the configured objects again;  *)
(* in the selection loop every copy met in the view layer is removed.       *)
SwitchToOriginals(sc, bs, sourceref, targetref) ==
    LET noSrc == IF sourceref \in sc.inLayer THEN RemoveObject(sc, sourceref) ELSE sc
        noTgt == IF targetref \in noSrc.inLayer THEN RemoveObject(noSrc, targetref)
                 ELSE noSrc
    IN  SelectSourceTarget(noTgt, bs.source_object, bs.target_object)

(* Lines 1175-1196, the UV job, without the rebinding of obj by its two     *)
(* "for obj in ..." loops: target alone is selected, the layout is          *)
(* exported, source and target are selected again.                          *)
UVJobScene(sc, source, target) ==
    [sc EXCEPT !.selected = {o \in sc.inLayer : o = source \/ o = target},
               !.active = target]

(* CreateMapOutput(bakeType), lines 730-824, in its parts.                 *)

\* Lines 734-745: the name the function starts from, unbound when no target
\* is set.
name_stem_unstripped(bs, sc) ==
    LET obj == bs.target_object
        src == IF ~bs.single_object THEN bs.source_object ELSE NoObj
    IN  IF obj = NoObj THEN [bound |-> FALSE, name |-> << >>]
        ELSE IF src # NoObj
        THEN [bound |-> TRUE, name |-> commonprefix(sc.name[src], sc.name[obj])]
        ELSE [bound |-> TRUE, name |-> sc.name[obj]]

name_stem(bs, sc) ==
    LET obj == bs.target_object
        src == IF ~bs.single_object THEN bs.source_object ELSE NoObj
    IN  IF obj = NoObj THEN [bound |-> FALSE, name |-> << >>]
        ELSE IF src # NoObj
        THEN [bound |-> TRUE,
              name |-> strip_trailing_non_alnum(
                           commonprefix(sc.name[src], sc.name[obj]))]
        ELSE [bound |-> TRUE, name |-> sc.name[obj]]

\* A variant of custom_output_dir that appends the subfolder always.
custom_output_dir_always_subfolder(bs, name, root_path) ==
    LET base == IF bs.use_custom_path THEN bs.bake_path ELSE root_path
        d1 == IF bs.use_object_folder THEN path_join(base, name) ELSE base
    IN  path_join(d1, bs.subfolder_name)

\* Lines 760-777: the directory of the custom mode, before abspath.
custom_output_dir(bs, name, root_path) ==
    LET base == IF bs.use_custom_path THEN bs.bake_path ELSE root_path
        d1 == IF bs.use_object_folder THEN path_join(base, name) ELSE base
    IN  IF bs.use_subfolder THEN path_join(d1, bs.subfolder_name) ELSE d1

\* A variant of selected_type_of in which every map type has one label.
selected_type_of_one_label(bakeType, separator2) ==
    << "M", "A", "P" >>

\* Lines 782-804: the label of the map type, upper case.
selected_type_of(bakeType, separator2) ==
    IF bakeType = "AO" THEN
        << "A", "M", "B", "I", "E", "N", "T" >> \o separator2 \o << "O", "C", "C", "L", "U", "S", "I", "O", "N" >>
    ELSE IF bakeType = "WORLD_SPACE_NORMAL" THEN
        << "W", "O", "R", "L", "D" >> \o separator2 \o << "S", "P", "A", "C", "E" >>
            \o separator2 \o << "N", "O", "R", "M", "A", "L", "S" >>
    ELSE IF bakeType = "COMBINED" THEN
        << "C", "O", "M", "B", "I", "N", "E", "D" >>
    ELSE IF bakeType = "NORMAL" THEN
        << "N", "O", "R", "M", "A", "L" >>
    ELSE IF bakeType = "SHADOW" THEN
        << "S", "H", "A", "D", "O", "W" >>
    ELSE IF bakeType = "POSITION" THEN
        << "P", "O", "S", "I", "T", "I", "O", "N" >>
    ELSE IF bakeType = "UV" THEN
        << "U", "V" >>
    ELSE IF bakeType = "ROUGHNESS" THEN
        << "R", "O", "U", "G", "H", "N", "E", "S", "S" >>
    ELSE IF bakeType = "EMIT" THEN
        << "E", "M", "I", "T" >>
    ELSE IF bakeType = "ENVIRONMENT" THEN
        << "E", "N", "V", "I", "R", "O", "N", "M", "E", "N", "T" >>
    ELSE IF bakeType = "DIFFUSE" THEN
        << "D", "I", "F", "F", "U", "S", "E" >>
    ELSE IF bakeType = "GLOSSY" THEN
        << "G", "L", "O", "S", "S", "Y" >>
    ELSE IF bakeType = "TRANSMISSION" THEN
        << "T", "R", "A", "N", "S", "M", "I", "S", "S", "I", "O", "N" >>
    ELSE IF bakeType = "CURVATURE" THEN
        << "C", "U", "R", "V", "A", "T", "U", "R", "E" >>
    ELSE << >>

\* A variant of bake_type_formatted_of whose Pascal case keeps the trailing
\* separator.
bake_type_formatted_of_untrimmed(bs, selected_type) ==
    IF bs.automatic_output_path THEN lower(selected_type)
    ELSE IF ~bs.naming_uppercase /\ ~bs.naming_pascalcase
    THEN lower(selected_type)
    ELSE IF bs.naming_uppercase THEN selected_type
    ELSE replace(join_capitalized(split(lower(selected_type), ".")), ".",
                 bs.mapname_separator)

\* Lines 806-818: the label in the configured letter case.
bake_type_formatted_of(bs, selected_type) ==
    IF bs.automatic_output_path THEN lower(selected_type)
    ELSE IF ~bs.naming_uppercase /\ ~bs.naming_pascalcase
    THEN lower(selected_type)
    ELSE IF bs.naming_uppercase THEN selected_type
    ELSE LET words == split(lower(selected_type), ".")
             joined == replace(join_capitalized(words), ".",
                               bs.mapname_separator)
         IN  IF Len(bs.mapname_separator) > 0
             THEN SubSeq(joined, 1, Len(joined) - Len(bs.mapname_separator))
             ELSE joined

\* The components of a path, the empty ones dropped.
RECURSIVE NonEmpty(_)
NonEmpty(parts) ==
    IF parts = << >> THEN << >>
    ELSE (IF Head(parts) = << >> THEN << >> ELSE << Head(parts) >>)
            \o NonEmpty(Tail(parts))

PathParts(path) == NonEmpty(split(path, "/"))

\* os.makedirs(path, exist_ok=True): the directory and every ancestor of it.
makedirs(path) ==
    LET parts == PathParts(path)
    IN  {SubSeq(parts, 1, k) : k \in 1..Len(parts)}

(* The whole function.  raised names the exception that leaves it: name is *)
(* unbound at line 748 when no target is set, and os.makedirs rejects the  *)
(* empty path at line 780.                                                 *)
CreateMapOutput(bs, sc, bakeType) ==
    LET stem == name_stem(bs, sc)
        failed(exc) ==
            [raised |-> exc, bake_type |-> bakeType, name |-> << >>,
             output_dir |-> << >>, bake_type_formatted |-> << >>,
             output_file |-> << >>]
    IN
    IF ~stem.bound THEN failed("UnboundLocalError")
    ELSE
    LET automatic == bs.automatic_output_path
        root_path == abspath(<< "/", "/", "R", "e", "s", "o", "u", "r", "c", "e", "s", "/" >>)
        name == IF ~automatic /\ bs.use_custom_name THEN bs.custom_name
                ELSE stem.name
        separator2 ==
            IF automatic THEN << "_" >>
            ELSE IF bs.naming_pascalcase THEN << "." >>
            ELSE bs.mapname_separator
        output_dir ==
            abspath(IF automatic
                    THEN abspath(<< "/", "/", "R", "e", "s", "o", "u", "r", "c", "e", "s", "/" >> \o stem.name \o << "/", "b", "a", "k", "e", "d", "_", "m", "a", "p", "s", "/" >>)
                    ELSE custom_output_dir(bs, name, root_path))
        bake_type_formatted ==
            bake_type_formatted_of(bs, selected_type_of(bakeType, separator2))
        full_name == name \o bs.naming_separator \o bake_type_formatted
    IN
    IF output_dir = << >> THEN failed("FileNotFoundError")
    ELSE [raised |-> "no", bake_type |-> bakeType, name |-> name,
          output_dir |-> output_dir,
          bake_type_formatted |-> bake_type_formatted,
          output_file |-> path_join(output_dir, full_name \o << ".", "p", "n", "g" >>)]

(* The part of a job that precedes its call of CreateMapOutput: for UV the  *)
(* selection of the target (1177-1179), otherwise the temporary material,  *)
(* for POSITION the normalisation, and the new image.                      *)
BuildJobUntilOutput(sc, r, bs, bake_type) ==
    IF bake_type = "UV"
    THEN [sc EXCEPT !.selected = {o \in sc.inLayer : o = r.target},
                    !.active = r.target]
    ELSE IF bake_type = "CURVATURE"
    THEN LET s1 == SetSlot0(sc, r.user_obj, TempMaterial(bake_type))
         IN  [s1 EXCEPT !.matData = @ \cup {TempMaterial(bake_type)},
                        !.images = @ \cup {bake_type}]
    ELSE IF bake_type = "WORLD_SPACE_NORMAL"
    THEN LET s1 == ClearAndAppend(sc, r.user_obj, TempMaterial(bake_type))
         IN  [s1 EXCEPT !.matData = @ \cup {TempMaterial(bake_type)},
                        !.images = @ \cup {bake_type}]
    ELSE IF bake_type = "POSITION"
    THEN LET s1 == normalize_to_unit_cube(sc, r.obj)
             s2 == ClearAndAppend(s1, r.obj, TempMaterial(bake_type))
         IN  [s2 EXCEPT !.matData = @ \cup {TempMaterial(bake_type)},
                        !.images = @ \cup {bake_type}]
    ELSE [sc EXCEPT !.images = @ \cup {bake_type}]

(* The part of a job before its bake call: the temporary material, the     *)
(* image and its node, and for POSITION the normalisation and selection.   *)
BuildJob(sc, r, bs, bake_type) ==
    IF bake_type = "CURVATURE"
    THEN LET s1 == SetSlot0(sc, r.user_obj, TempMaterial(bake_type))
         IN  [s1 EXCEPT !.matData = @ \cup {TempMaterial(bake_type)},
                        !.images = @ \cup {bake_type},
                        !.imgNodes = @ \cup
                            {IF bs.selected_to_active THEN r.mat
                             ELSE TempMaterial(bake_type)}]
    ELSE IF bake_type = "WORLD_SPACE_NORMAL"
    THEN LET s1 == ClearAndAppend(sc, r.user_obj, TempMaterial(bake_type))
         IN  [s1 EXCEPT !.matData = @ \cup {TempMaterial(bake_type)},
                        !.images = @ \cup {bake_type},
                        !.imgNodes = @ \cup
                            {IF bs.selected_to_active THEN r.mat
                             ELSE TempMaterial(bake_type)}]
    ELSE IF bake_type = "POSITION"
    THEN LET s1 == normalize_to_unit_cube(sc, r.obj)
             s2 == ClearAndAppend(s1, r.obj, TempMaterial(bake_type))
             s3 == [s2 EXCEPT !.matData = @ \cup {TempMaterial(bake_type)},
                              !.images = @ \cup {bake_type},
                              !.imgNodes = @ \cup {TempMaterial(bake_type)}]
         IN  IF r.non_active_obj # NoObj
             THEN [s3 EXCEPT !.hide_render[r.non_active_obj] = TRUE,
                             !.use_selected_to_active = FALSE,
                             !.selected = {r.obj},
                             !.active = r.obj]
             ELSE s3
    ELSE [sc EXCEPT !.images = @ \cup {bake_type},
                    !.imgNodes = @ \cup {r.mat},
                    !.active = r.obj]

\* Where the image node of the job was added.
\* Lines 1244-1245, 1503-1504, 1741-1742: just before its bake call a
\* derived job switches the direct and indirect contributions off.
passes_off(sc, bake_type) ==
    IF bake_type \in DerivedTypes
    THEN [sc EXCEPT !.use_pass_direct = FALSE, !.use_pass_indirect = FALSE]
    ELSE sc

\* Lines 1261-1262, 1518-1519, 1759-1760: the teardown of a derived job
\* puts the configured contributions back.
passes_configured(sc, bs, bake_type) ==
    IF bake_type \in DerivedTypes
    THEN [sc EXCEPT !.use_pass_direct = bs.direct,
                    !.use_pass_indirect = bs.indirect]
    ELSE sc

ImgNodeOwner(r, bs, bake_type) ==
    IF bake_type \in {"CURVATURE", "WORLD_SPACE_NORMAL"}
    THEN IF bs.selected_to_active THEN r.mat ELSE TempMaterial(bake_type)
    ELSE IF bake_type = "POSITION" THEN TempMaterial(bake_type)
    ELSE r.mat

(* The part of a job after its bake call: the image is removed (after      *)
(* img.save(), recorded in hist), then the node and the temporary          *)
(* material; the slot, the transform and the selection are put back.       *)
RestoreJob(sc, r, bs, bake_type) ==
    LET s0 == [sc EXCEPT !.images = @ \ {bake_type},
                         !.imgNodes = @ \ {ImgNodeOwner(r, bs, bake_type)},
                         !.matData = @ \ {TempMaterial(bake_type)}]
    IN  IF bake_type \in {"CURVATURE", "WORLD_SPACE_NORMAL"}
        THEN SetSlot0(s0, r.user_obj, r.original_material)
        ELSE IF bake_type = "POSITION"
        THEN LET s1 == revert_normalization(s0, r.obj)
                 s2 == SetSlot0(s1, r.obj, r.original_material)
                 s3 == IF r.non_active_obj # NoObj
                       THEN [s2 EXCEPT !.selected = @ \cup {r.non_active_obj},
                                       !.hide_render[r.non_active_obj] = FALSE]
                       ELSE s2
             IN  [s3 EXCEPT !.use_selected_to_active = bs.selected_to_active]
        ELSE s0

BeginJob ==
    /\ run.pc = "loop"
    /\ run.idx <= Len(map_types)
    /\ UNCHANGED << bake_settings, pre, cli >>
    /\ LET bs == bake_settings
           bake_type == map_types[run.idx]
           switch == ~IsUnlit(bake_type) /\ run.source # bs.source_object
           \* lines 1127-1150
           sc1 == IF switch
                  THEN UnhideOriginals(
                         SwitchToOriginals(scene, bs, run.sourceref, run.targetref))
                  ELSE scene
           r1 == IF ~IsUnlit(bake_type)
                 THEN IF switch
                      THEN [run EXCEPT !.copydestroyed = TRUE,
                                       !.source = bs.source_object,
                                       !.target = bs.target_object,
                                       !.obj = sc1.active,
                                       !.non_active_obj = NoObj,
                                       !.user_obj = sc1.active]
                      ELSE [run EXCEPT !.copydestroyed = TRUE]
                 ELSE run
           h1 == [hist EXCEPT !.removed =
                     IF switch THEN @ \o << run.sourceref, run.targetref >>
                     ELSE @,
                  \* line 1146: obj is the object active for the lit phase
                              !.activated =
                     IF switch /\ sc1.active # NoObj THEN Append(@, sc1.active)
                     ELSE @]
       IN
       IF switch /\ r1.obj = NoObj
       THEN \* lines 1151-1153
            /\ scene' = sc1
            /\ run' = AfterNoActiveObject(r1)
            /\ hist' = [h1 EXCEPT !.report = "ERROR"]
       ELSE
       LET \* lines 1155-1173
           non_active_obj == IF switch THEN NonActiveObj(sc1) ELSE r1.non_active_obj
           em == IF switch THEN EnsureMaterial(sc1, r1.obj)
                 ELSE [sc |-> sc1, mat |-> r1.mat]
           r2 == [r1 EXCEPT !.non_active_obj = non_active_obj,
                            !.user_obj = IF switch /\ non_active_obj # NoObj
                                         THEN non_active_obj ELSE @,
                            !.mat = em.mat]
       IN
       LET \* lines 1187, 1230, 1489, 1723, 1768
           out == CreateMapOutput(bs, em.sc, bake_type)
           axial == bake_type \in {"WORLD_SPACE_NORMAL", "POSITION"}
           ax == job_axis_nodes(bs, bake_type)
           r3 == IF axial
                 THEN [r2 EXCEPT !.in_forward_node = ax.in_forward_node,
                                 !.in_right_node = ax.in_right_node,
                                 !.in_up_node = ax.in_up_node,
                                 !.math_node_inputs = subtract_node_links]
                 ELSE r2
           h2 == [h1 EXCEPT !.started = Append(@, bake_type),
                            \* line 1523: the transform obj has when it is
                            \* normalized with no revert outstanding
                            !.before_normalize =
                                IF bake_type = "POSITION" /\ @[r2.obj] = << >>
                                THEN [@ EXCEPT ![r2.obj] =
                                         << em.sc.transform[r2.obj] >>]
                                ELSE @,
                            !.axes = IF axial THEN Append(@, ax) ELSE @,
                            !.combine =
                                IF bake_type = "WORLD_SPACE_NORMAL"
                                THEN Append(@, wsn_combine_links(ax))
                                ELSE IF bake_type = "POSITION"
                                THEN Append(@, position_combine_links(ax))
                                ELSE @]
           h3 == [h2 EXCEPT !.outputs = Append(@, out)]
       IN
       IF bake_type = "UV"
       THEN \* the loops of lines 1177 and 1194 leave obj bound to the last
            \* object of the view layer, whichever that is
            \E last \in scene.inLayer :
               IF out.raised # "no"
               THEN /\ scene' = BuildJobUntilOutput(em.sc, r2, bs, bake_type)
                    /\ run' = [r2 EXCEPT !.obj = last, !.pc = "RAISED"]
                    /\ hist' = [h2 EXCEPT !.report = "EXCEPTION"]
               ELSE /\ scene' = [UVJobScene(em.sc, r2.source, r2.target)
                                   EXCEPT !.dirs = @ \cup makedirs(out.output_dir)]
                    /\ run' = [r2 EXCEPT !.obj = last,
                                         !.idx = NextJob(bs, run.idx + 1)]
                    /\ hist' = [h3 EXCEPT !.saved = Append(@, bake_type),
                                          !.restored = Append(@, bake_type),
                                          \* line 1188: export_layout
                                          !.written = Append(@, out)]
       ELSE IF out.raised # "no"
       THEN /\ scene' = BuildJobUntilOutput(em.sc, r3, bs, bake_type)
            /\ run' = [r3 EXCEPT !.pc = "RAISED"]
            /\ hist' = [h2 EXCEPT !.report = "EXCEPTION"]
       ELSE /\ scene' = passes_off(
                          [BuildJob(em.sc, r3, bs, bake_type)
                             EXCEPT !.dirs = @ \cup makedirs(out.output_dir)],
                          bake_type)
            /\ run' = [r3 EXCEPT !.pc = "baking"]
            /\ hist' = h3

\* The contributions a bake call runs with: the render settings at the call.
PassesAtCall(sc) ==
    [direct |-> sc.use_pass_direct, indirect |-> sc.use_pass_indirect]

\* bpy.ops.object.bake returns (lines 1246, 1505, 1743, 1792).
BakeOk ==
    /\ run.pc = "baking"
    /\ run' = [run EXCEPT !.pc = "saving"]
    /\ hist' = [hist EXCEPT !.bakeCalls = Append(@, map_types[run.idx]),
                            !.passes = Append(@, PassesAtCall(scene))]
    /\ UNCHANGED << bake_settings, scene, pre, cli >>

\* A variant of AfterBakeRaised that swallows the exception and goes on.
AfterBakeRaised_swallowed(r) == [r EXCEPT !.pc = "saving"]

\* The position after bpy.ops.object.bake raised: the exception leaves execute.
AfterBakeRaised(r) == [r EXCEPT !.pc = "RAISED"]

\* bpy.ops.object.bake raises RuntimeError.
BakeFail ==
    /\ run.pc = "baking"
    /\ run' = AfterBakeRaised(run)
    /\ hist' = [hist EXCEPT !.bakeCalls = Append(@, map_types[run.idx]),
                            !.passes = Append(@, PassesAtCall(scene)),
                            !.failedJob = map_types[run.idx],
                            !.report = "EXCEPTION"]
    /\ UNCHANGED << bake_settings, scene, pre, cli >>

\* Lines 1248-1262, 1507-1519, 1746-1761, 1794-1797.
FinishJob ==
    /\ run.pc = "saving"
    /\ scene' = passes_configured(
                    RestoreJob(scene, run, bake_settings, map_types[run.idx]),
                    bake_settings, map_types[run.idx])
    /\ run' = [run EXCEPT !.pc = "loop",
                          !.idx = NextJob(bake_settings, run.idx + 1)]
    /\ hist' = [hist EXCEPT !.saved = Append(@, map_types[run.idx]),
                            !.restored = Append(@, map_types[run.idx]),
                            \* img.save() writes to img.filepath_raw
                            !.written = Append(@, hist.outputs[Len(hist.outputs)]),
                            \* line 1751: what revert_normalization put back
                            !.reverts =
                                IF map_types[run.idx] = "POSITION"
                                THEN Append(@,
                                       [obj |-> run.obj,
                                        restored |-> scene'.transform[run.obj],
                                        before |-> hist.before_normalize[run.obj]])
                                ELSE @,
                            !.before_normalize =
                                IF map_types[run.idx] = "POSITION"
                                THEN [@ EXCEPT ![run.obj] = << >>]
                                ELSE @]
    /\ UNCHANGED << bake_settings, pre, cli >>

-----------------------------------------------------------------------------
(* execute, lines 1807-1822: after the loop.                               *)

\* purge_unused_data: materials no slot uses are removed.
purge_unused_data(sc) ==
    [sc EXCEPT !.matData =
        {m \in @ : \E o \in sc.objects :
                      \E i \in 1..Len(sc.materials[o]) : sc.materials[o][i] = m}]

\* Lines 1807-1814.
\* A variant of copies_remain that forgets the copydestroyed flag.
copies_remain_unguarded(r) == ~r.islitmap

\* Lines 1807-1808: the copies were made and no lit job has removed them.
copies_remain(r) == ~r.islitmap /\ ~r.copydestroyed

EndOfRunCleanup(sc, r) ==
    IF copies_remain(r)
    THEN UnhideOriginals(
           RemoveObject(RemoveObject(sc, r.sourceref), r.targetref))
    ELSE sc

Finish ==
    /\ run.pc = "loop"
    /\ run.idx > Len(map_types)
    /\ scene' = [purge_unused_data(EndOfRunCleanup(scene, run))
                    EXCEPT !.engine = run.default_engine]
    /\ run' = [run EXCEPT !.pc = "FINISHED"]
    /\ hist' = [hist EXCEPT !.report = "INFO",
                            !.removed = IF copies_remain(run)
                                        THEN @ \o << run.sourceref, run.targetref >>
                                        ELSE @]
    /\ UNCHANGED << bake_settings, pre, cli >>

-----------------------------------------------------------------------------
\* The number of times the operator is invoked in one Blender session.
MaxRuns == 2

(* Between two invocations: execute has returned or raised, the user       *)
(* deletes the duplicates a run left behind, and the button of the panel   *)
(* (line 425) is pressed again.  The module-level original_data (line      *)
(* 1824) lives as long as the session and is not touched.                  *)
StartOver ==
    /\ run.pc \in {"FINISHED", "CANCELLED", "RAISED"}
    /\ cli.pc = "none"
    /\ hist.runs < MaxRuns
    /\ scene' = [scene EXCEPT !.objects = @ \ DupObjs,
                              !.inLayer = @ \ DupObjs,
                              !.selected = @ \ DupObjs,
                              !.active = IF @ \in DupObjs THEN NoObj ELSE @]
    /\ run' = IdleRun
    /\ hist' = [hist EXCEPT !.runs = @ + 1,
                            !.before_normalize =
                                [o \in Objs |->
                                   IF o \in DupObjs THEN << >> ELSE @[o]]]
    /\ UNCHANGED << bake_settings, pre, cli >>

-----------------------------------------------------------------------------
(* The update callbacks of BakeSettings (lines 55-95), on the settings      *)
(* record, and the user's click on each flag: the flag flips and then its  *)
(* callback runs.  A callback's assignment to the partner flag runs the    *)
(* partner's callback, which assigns values the flags already hold.        *)

\* lines 55-60
update_automatic_output(self) ==
    IF self.automatic_output_path
    THEN [self EXCEPT !.custom_output_path = FALSE]
    ELSE [self EXCEPT !.custom_output_path = TRUE]

\* lines 62-67
update_custom_output(self) ==
    IF self.custom_output_path
    THEN [self EXCEPT !.automatic_output_path = FALSE]
    ELSE [self EXCEPT !.automatic_output_path = TRUE]

\* lines 70-74
update_selected_to_active(self) ==
    IF self.selected_to_active
    THEN [self EXCEPT !.single_object = FALSE]
    ELSE [self EXCEPT !.single_object = TRUE]

\* A variant of update_single_object that leaves the partner flag alone.
update_single_object_inert(self) == self

\* lines 76-80
update_single_object(self) ==
    IF self.single_object
    THEN [self EXCEPT !.selected_to_active = FALSE]
    ELSE [self EXCEPT !.selected_to_active = TRUE]

\* A variant of update_naming_uppercase that clears nothing.
update_naming_uppercase_inert(self) == self

\* lines 82-85
update_naming_uppercase(self) ==
    IF self.naming_uppercase
    THEN [self EXCEPT !.naming_lowercase = FALSE, !.naming_pascalcase = FALSE]
    ELSE self

\* lines 87-90
update_naming_lowercase(self) ==
    IF self.naming_lowercase
    THEN [self EXCEPT !.naming_uppercase = FALSE, !.naming_pascalcase = FALSE]
    ELSE self

\* lines 92-95
update_naming_pascalcase(self) ==
    IF self.naming_pascalcase
    THEN [self EXCEPT !.naming_uppercase = FALSE, !.naming_lowercase = FALSE]
    ELSE self

\* The most a margin percentage can be (line 145); the least is 0.
MaxPercentage == 100

\* The powers of two from the least resolution (64) to the most (4096) of
\* line 152.
Resolutions == {64, 128, 256, 512, 1024, 2048, 4096}

(* update_bake_margin(self, context), lines 97-103: the values int() can    *)
(* give render.bake.margin.  int() drops the fraction of the double        *)
(* resolution * (margin_percentage / 100).  A quarter of a hundred divided *)
(* by 100 is a double and its product with the resolution is exact; for any *)
(* other percentage the quotient is rounded, and where the exact product   *)
(* is a whole number the double may lie just below it, so that int() gives *)
(* one less (100 * 0.29 is 28.999999999999996).                            *)
update_bake_margin(self) ==
    LET product == self.resolution * self.margin_percentage
        down == product \div 100
    IN  IF product % 100 = 0 /\ self.margin_percentage % 25 # 0
        THEN {down, down - 1}
        ELSE {down}

\* The user sets the resolution (line 152, update=update_bake_margin).
SetResolution ==
    /\ run.pc = "idle"
    /\ \E r \in Resolutions :
          /\ bake_settings' = [bake_settings EXCEPT !.resolution = r]
          /\ \E m \in update_bake_margin(bake_settings') :
                scene' = [scene EXCEPT !.bake_margin = << m >>]
    /\ UNCHANGED << run, hist, pre, cli >>

\* The user sets the margin percentage (lines 142-149).
SetMarginPercentage ==
    /\ run.pc = "idle"
    /\ \E pct \in 0..MaxPercentage :
          /\ bake_settings' = [bake_settings EXCEPT !.margin_percentage = pct]
          /\ \E m \in update_bake_margin(bake_settings') :
                scene' = [scene EXCEPT !.bake_margin = << m >>]
    /\ UNCHANGED << run, hist, pre, cli >>

ToggleSelectedToActive ==
    /\ run.pc = "idle"
    /\ bake_settings' = update_selected_to_active(
           [bake_settings EXCEPT !.selected_to_active = ~@])
    /\ UNCHANGED << scene, run, hist, pre, cli >>

ToggleSingleObject ==
    /\ run.pc = "idle"
    /\ bake_settings' = update_single_object(
           [bake_settings EXCEPT !.single_object = ~@])
    /\ UNCHANGED << scene, run, hist, pre, cli >>

ToggleAutomaticOutput ==
    /\ run.pc = "idle"
    /\ bake_settings' = update_automatic_output(
           [bake_settings EXCEPT !.automatic_output_path = ~@])
    /\ UNCHANGED << scene, run, hist, pre, cli >>

ToggleCustomOutput ==
    /\ run.pc = "idle"
    /\ bake_settings' = update_custom_output(
           [bake_settings EXCEPT !.custom_output_path = ~@])
    /\ UNCHANGED << scene, run, hist, pre, cli >>

ToggleNamingUppercase ==
    /\ run.pc = "idle"
    /\ bake_settings' = update_naming_uppercase(
           [bake_settings EXCEPT !.naming_uppercase = ~@])
    /\ UNCHANGED << scene, run, hist, pre, cli >>

ToggleNamingLowercase ==
    /\ run.pc = "idle"
    /\ bake_settings' = update_naming_lowercase(
           [bake_settings EXCEPT !.naming_lowercase = ~@])
    /\ UNCHANGED << scene, run, hist, pre, cli >>

ToggleNamingPascalcase ==
    /\ run.pc = "idle"
    /\ bake_settings' = update_naming_pascalcase(
           [bake_settings EXCEPT !.naming_pascalcase = ~@])
    /\ UNCHANGED << scene, run, hist, pre, cli >>

-----------------------------------------------------------------------------
(* run_xbake.py, the command-line entry point.                             *)

(* import_fbx_and_get_first_mesh(file_path), lines 28-48, for a file of the *)
(* given kind that holds the object o: the object returned and what is     *)
(* printed.                                                                *)
import_fbx_and_get_first_mesh(kind, o) ==
    IF kind = "missing"
    THEN [obj |-> NoObj, printed |-> << "Error: File not found" >>]
    ELSE IF kind = "unreadable"
    THEN [obj |-> NoObj, printed |-> << "Failed to import FBX" >>]
    ELSE IF kind = "no_mesh"
    THEN [obj |-> NoObj, printed |-> << >>]
    ELSE [obj |-> o, printed |-> << >>]

\* The importer links the mesh it read to the scene.
Imported(sc, r) ==
    IF r.obj = NoObj THEN sc
    ELSE [sc EXCEPT !.objects = @ \cup {r.obj}, !.inLayer = @ \cup {r.obj}]

\* Lines 87-88 and 100-101: no "--" on the command line.
CLINoArguments ==
    /\ cli.pc = "start"
    /\ ~cli.args
    /\ cli' = [cli EXCEPT !.pc = "exit",
                          !.printed = Append(@,
                              "Error: Failed to load lowpoly or highpoly meshes.")]
    /\ UNCHANGED << bake_settings, scene, run, hist, pre >>

\* Line 89.
CLIImportLowpoly ==
    /\ cli.pc = "start"
    /\ cli.args
    /\ LET r == import_fbx_and_get_first_mesh(cli.lowpoly_file, "tgt") IN
       /\ scene' = Imported(scene, r)
       /\ cli' = [cli EXCEPT !.pc = "lowpoly", !.lowpoly = r.obj,
                             !.printed = @ \o r.printed]
    /\ UNCHANGED << bake_settings, run, hist, pre >>

\* Line 90.
CLIImportHighpoly ==
    /\ cli.pc = "lowpoly"
    /\ LET r == import_fbx_and_get_first_mesh(cli.highpoly_file, "src") IN
       /\ scene' = Imported(scene, r)
       /\ pre' = scene'
       /\ cli' = [cli EXCEPT !.pc = "highpoly", !.highpoly = r.obj,
                             !.printed = @ \o r.printed]
    /\ UNCHANGED << bake_settings, run, hist >>

\* The directory of the lowpoly file (line 78).
LowpolyDir == << "/", "i", "n" >>

\* The resolution the parser gives when none is passed (line 24).
DefaultCLIResolution == 2048

(* runbake, lines 56-79: the settings assigned before the operator is      *)
(* called; every map flag of the parser is true by default.                *)
runbake_settings(bs, c) ==
    [update_custom_output([bs EXCEPT !.custom_output_path = TRUE])
        EXCEPT !.source_object = c.highpoly,
               !.target_object = c.lowpoly,
               !.resolution = DefaultCLIResolution,
               !.enabled = @ \cup {"NORMAL", "AO", "CURVATURE", "POSITION",
                                   "WORLD_SPACE_NORMAL"},
               !.forward_axis = IF c.usemayaorientation THEN "POS_Z" ELSE "POS_Y",
               !.up_axis = IF c.usemayaorientation THEN "POS_Y" ELSE "POS_Z",
               !.use_custom_path = TRUE,
               !.bake_path = LowpolyDir,
               !.use_object_folder = FALSE]

(* Lines 91-92 with runbake up to its call of the operator (line 81), which *)
(* Setup to Finish carry out: the bake is called when both imports gave an *)
(* object and the text block is present.                                   *)
CLIRunBake ==
    /\ cli.pc = "highpoly"
    /\ IF cli.lowpoly # NoObj /\ cli.highpoly # NoObj
       THEN IF cli.text_block
            THEN /\ bake_settings' = runbake_settings(bake_settings, cli)
                 /\ \E m \in update_bake_margin(bake_settings') :
                       scene' = [scene EXCEPT !.bake_margin = << m >>]
                 /\ cli' = [cli EXCEPT !.pc = "bake", !.bake_calls = @ + 1]
            ELSE /\ cli' = [cli EXCEPT !.pc = "cleanup",
                                       !.printed = Append(@, "Text block not found.")]
                 /\ UNCHANGED << bake_settings, scene >>
       ELSE /\ cli' = [cli EXCEPT !.pc = "cleanup"]
            /\ UNCHANGED << bake_settings, scene >>
    /\ pre' = scene'
    /\ UNCHANGED << run, hist >>

\* The operator raised: the exception leaves the script at line 81.
CLIBakeRaised ==
    /\ cli.pc = "bake"
    /\ run.pc = "RAISED"
    /\ cli' = [cli EXCEPT !.pc = "crashed"]
    /\ UNCHANGED << bake_settings, scene, run, hist, pre >>

\* Lines 93-99: the imported objects are removed and the host is quit.
CLICleanup ==
    /\ \/ cli.pc = "cleanup"
       \/ cli.pc = "bake" /\ run.pc \in {"FINISHED", "CANCELLED"}
    /\ scene' = purge_unused_data(
                    RemoveObject(RemoveObject(scene, cli.lowpoly), cli.highpoly))
    /\ cli' = [cli EXCEPT !.pc = "quit"]
    /\ UNCHANGED << bake_settings, run, hist, pre >>

-----------------------------------------------------------------------------
Next ==
    \/ Setup
    \/ BeginJob
    \/ BakeOk
    \/ BakeFail
    \/ FinishJob
    \/ Finish

Spec == Init /\ [][Next]_vars

SpecAxes == InitAxes /\ [][Next]_vars

SpecPosition == InitPosition /\ [][Next]_vars

SpecNames == InitNames /\ [][Next]_vars

SpecOutput == InitOutput /\ [][Next]_vars

SpecPaths == InitPaths /\ [][Next]_vars

\* A session in which the user clicks the flags of the panel before baking.
NextToggles ==
    \/ Next
    \/ ToggleSelectedToActive
    \/ ToggleSingleObject
    \/ ToggleAutomaticOutput
    \/ ToggleCustomOutput
    \/ ToggleNamingUppercase
    \/ ToggleNamingLowercase
    \/ ToggleNamingPascalcase

SpecToggles == InitToggles /\ [][NextToggles]_vars

\* run_xbake.py, with the operator it calls.
NextCLI ==
    \/ Next
    \/ CLINoArguments
    \/ CLIImportLowpoly
    \/ CLIImportHighpoly
    \/ CLIRunBake
    \/ CLIBakeRaised
    \/ CLICleanup

SpecCLI == InitCLI /\ [][NextCLI]_vars

\* A session in which the user sets the resolution and the margin.
NextMargin ==
    \/ SetResolution
    \/ SetMarginPercentage

SpecMargin == InitMargin /\ [][NextMargin]_vars


-----------------------------------------------------------------------------
(* Vocabulary of the properties.                                           *)

Terminal == run.pc \in {"FINISHED", "CANCELLED", "RAISED"}

\* The runner is between jobs or has returned.
OutsideJob == run.pc = "loop" \/ Terminal

CurrentJob == map_types[run.idx]

Count(seq, x) == Cardinality({i \in 1..Len(seq) : seq[i] = x})

Elems(seq) == {seq[i] : i \in 1..Len(seq)}

IsPrefix(s, t) == Len(s) <= Len(t) /\ \A i \in 1..Len(s) : s[i] = t[i]

DuplicatesExist == scene.objects \cap DupObjs # {}

TemporariesLeft ==
    \/ scene.images # {}
    \/ scene.imgNodes # {}
    \/ \E t \in MapTypeSet : TempMaterial(t) \in scene.matData

\* The job order as the specification states it.
StatedOrder ==
    << "NORMAL", "AO", "CURVATURE", "UV", "POSITION", "WORLD_SPACE_NORMAL",
       "COMBINED", "SHADOW", "ROUGHNESS", "EMIT", "ENVIRONMENT", "DIFFUSE",
       "GLOSSY", "TRANSMISSION" >>

InEnabled(t) == t \in bake_settings.enabled

\* The configurations the specification calls invalid.
InvalidConfiguration ==
    \/ bake_settings.target_object = NoObj
    \/ bake_settings.selected_to_active /\ bake_settings.source_object = NoObj
    \/ bake_settings.enabled = {}

\* A valid configuration whose target is in the view layer.
ValidRun == ~InvalidConfiguration /\ "tgt" \in pre.inLayer

ExpectedJobs == SelectSeq(StatedOrder, InEnabled)

-----------------------------------------------------------------------------
(* C1: for every job the runner has entered and left (Curvature,           *)
(* WorldSpaceNormal, Position or a native pass), the job's teardown ran    *)
(* exactly once and left no temporary material, image or image node, on    *)
(* success and on failure of the bake call.  The code has no finally: it   *)
(* is violated when the bake call raises.  Stated for valid runs.          *)
C1_TeardownOnEveryExit ==
    ValidRun /\ OutsideJob =>
        /\ \A i \in 1..Len(hist.started) :
              Count(hist.restored, hist.started[i]) = 1
        /\ ~TemporariesLeft

(* C2: once the bake call of a job has failed, the run has ended with a    *)
(* failure reported, the failed job is the last one started and the last   *)
(* one baked, and nothing was saved for it or for any later job.           *)
C2_FailureStopsTheRun ==
    hist.failedJob # NoType =>
        /\ run.pc = "RAISED"
        /\ hist.report = "EXCEPTION"
        /\ hist.started # << >> /\ hist.started[Len(hist.started)] = hist.failedJob
        /\ hist.bakeCalls[Len(hist.bakeCalls)] = hist.failedJob
        /\ Count(hist.bakeCalls, hist.failedJob) = 1
        /\ hist.failedJob \notin Elems(hist.saved)
        /\ Len(hist.saved) = Len(hist.started) - 1

\* A bake call has failed while a later enabled map type was still to come.
C2_Witness ==
    /\ hist.failedJob # NoType
    /\ NextJob(bake_settings, run.idx + 1) <= Len(map_types)


\* The map types the specification classifies as unlit.
StatedUnlit ==
    {"NORMAL", "AO", "CURVATURE", "POSITION", "WORLD_SPACE_NORMAL", "UV"}

OriginalsHidden == scene.hide_render["src"] /\ scene.hide_render["tgt"]

C4_OnePairRemovedOnce ==
    /\ \A d \in DupObjs : Count(hist.created, d) <= 1
    /\ ValidRun /\ Terminal =>
          /\ \A d \in Elems(hist.created) : Count(hist.removed, d) = 1
          /\ ~DuplicatesExist

(* C5: after a run that completed, the material slots of the original      *)
(* source and target are what they were before the run.  Stated for valid  *)
(* runs whose source and target both carry a material of their own.        *)
C5_MaterialsAsBefore ==
    ( /\ ValidRun
      /\ \A o \in OrigObjs : pre.materials[o] # << >>
      /\ run.pc = "FINISHED" )
    => \A o \in OrigObjs : scene.materials[o] = pre.materials[o]

(* C6: after a run that completed, the render visibility of each original  *)
(* is what it was before the run.  Stated for valid runs.                  *)
C6_VisibilityAsBefore ==
    ValidRun /\ run.pc = "FINISHED" =>
        \A o \in OrigObjs : scene.hide_render[o] = pre.hide_render[o]

(* C7: the run never goes on without an active object: when none is        *)
(* resolvable after a selection step it ends CANCELLED with an error       *)
(* reported, and then no copy exists, the run has left no original hidden  *)
(* from the renderer, and the job at hand was neither started nor baked.   *)
C7_NoActiveObjectAborts ==
    /\ run.pc \in {"loop", "baking", "saving", "FINISHED"} => run.obj # NoObj
    /\ run.pc = "CANCELLED" =>
          /\ run.obj = NoObj
          /\ hist.report = "ERROR"
          /\ ~DuplicatesExist
          /\ \A o \in OrigObjs : scene.hide_render[o] => pre.hide_render[o]
          /\ IF run.idx = 0 THEN hist.bakeCalls = << >>
             ELSE /\ CurrentJob \notin Elems(hist.bakeCalls)
                  /\ CurrentJob \notin Elems(hist.started)

\* The run was cancelled at the first lit job, after it had made copies.
C7_Witness ==
    /\ run.pc = "CANCELLED"
    /\ hist.created # << >>

(* C8: with an invalid configuration (no target, no source in              *)
(* selected-to-active mode, no map type enabled) no job starts and the     *)
(* scene stays as it was.  The panel offers the button all the same and    *)
(* execute validates nothing.                                              *)
C8_InvalidConfigurationLeavesScene ==
    InvalidConfiguration => scene = pre /\ hist.started = << >>

(* C9: in single-object mode with a target in the view layer, no source    *)
(* and a map type enabled, a run whose bake calls all succeed completes    *)
(* and saves every enabled map type.                                       *)
C9_SingleObjectWithoutSource ==
    ( /\ ~bake_settings.selected_to_active
      /\ bake_settings.target_object = "tgt"
      /\ "tgt" \in pre.inLayer
      /\ bake_settings.source_object = NoObj
      /\ Terminal
      /\ hist.failedJob = NoType )
    => run.pc = "FINISHED" /\ hist.saved = ExpectedJobs

Front(seq) == SubSeq(seq, 1, Len(seq) - 1)

(* C10: the jobs started are, in order, a prefix of the stated order       *)
(* restricted to the enabled map types, all of it when the run completes;  *)
(* every job has at most one bake call; and whenever a bake call is        *)
(* pending every earlier job has been saved and torn down.                 *)
C10_OrderedOneAtATime ==
    /\ IsPrefix(hist.started, ExpectedJobs)
    /\ \A t \in MapTypeSet :
          /\ Count(hist.bakeCalls, t) <= 1
          /\ Count(hist.started, t) <= 1
          /\ t \in Elems(hist.bakeCalls) => t \in Elems(hist.started)
    /\ run.pc \in {"baking", "saving"} =>
          /\ hist.started # << >>
          /\ hist.saved = Front(hist.started)
          /\ hist.restored = Front(hist.started)
    /\ run.pc \in {"loop", "FINISHED", "CANCELLED"} =>
          /\ hist.saved = hist.started
          /\ hist.restored = hist.started
    /\ run.pc = "FINISHED" => hist.started = ExpectedJobs

\* The bake call of a second job is pending.
C10_Witness ==
    /\ run.pc = "baking"
    /\ Len(hist.started) = 2
    /\ Len(hist.saved) = 1

-----------------------------------------------------------------------------
(* Vocabulary of the axis claims.                                          *)

\* The signed world axis an axis setting names.
SettingAxis(a) ==
    CASE a = "POS_X" -> << 1, 0, 0 >>  [] a = "NEG_X" -> << -1, 0, 0 >>
      [] a = "POS_Y" -> << 0, 1, 0 >>  [] a = "NEG_Y" -> << 0, -1, 0 >>
      [] a = "POS_Z" -> << 0, 0, 1 >>  [] a = "NEG_Z" -> << 0, 0, -1 >>

(* The signed axis an output stands for in the tables: the component for   *)
(* an output of separate_xyz_node, its negative for the SUBTRACT node      *)
(* named after it.                                                         *)
NodeAxis(node) ==
    CASE node = "X" -> << 1, 0, 0 >>  [] node = "math_node_x" -> << -1, 0, 0 >>
      [] node = "Y" -> << 0, 1, 0 >>  [] node = "math_node_y" -> << 0, -1, 0 >>
      [] node = "Z" -> << 0, 0, 1 >>  [] node = "math_node_z" -> << 0, 0, -1 >>

Cross(a, b) ==
    << a[2] * b[3] - a[3] * b[2],
       a[3] * b[1] - a[1] * b[3],
       a[1] * b[2] - a[2] * b[1] >>

\* Forward and up lie on different physical axes.
Perpendicular(f, u) == Cross(SettingAxis(f), SettingAxis(u)) # << 0, 0, 0 >>

PerpendicularPairs == {p \in Axes \X Axes : Perpendicular(p[1], p[2])}

(* C11: for a perpendicular (forward, up) pair, every axis choice a job of *)
(* the run has made takes Forward and Up from the configured axes and      *)
(* Right from Forward x Up, in the WorldSpaceNormal and in the Position    *)
(* graph.  Violated for forward +X or -X with up +Y or -Y, where the       *)
(* tables take the opposite of Forward x Up.                               *)
C11_RightIsForwardCrossUp ==
    Perpendicular(bake_settings.forward_axis, bake_settings.up_axis) =>
        \A i \in 1..Len(hist.axes) :
            /\ NodeAxis(hist.axes[i].in_forward_node)
                   = SettingAxis(bake_settings.forward_axis)
            /\ NodeAxis(hist.axes[i].in_up_node)
                   = SettingAxis(bake_settings.up_axis)
            /\ NodeAxis(hist.axes[i].in_right_node)
                   = Cross(SettingAxis(bake_settings.forward_axis),
                           SettingAxis(bake_settings.up_axis))

(* C12: the axis choices made in one run, by the Position job and by the   *)
(* WorldSpaceNormal job, are the same for the same (forward, up) pair; a   *)
(* choice is reported as invalid exactly when forward and up lie on the    *)
(* same physical axis; and each table reports exactly 12 of the 36 pairs.  *)
C12_PairDecidesAndTwelveInvalid ==
    /\ \A i, j \in 1..Len(hist.axes) : hist.axes[i] = hist.axes[j]
    /\ \A i \in 1..Len(hist.axes) :
          hist.axes[i].printed
             <=> ~Perpendicular(bake_settings.forward_axis, bake_settings.up_axis)
    /\ Cardinality(PerpendicularPairs) = 24
    /\ Cardinality({p \in Axes \X Axes : wsn_axis_nodes(p[1], p[2]).printed}) = 12
    /\ Cardinality({p \in Axes \X Axes : position_axis_nodes(p[1], p[2]).printed}) = 12

\* Both jobs of a run have chosen their axes for a pair on one physical axis.
C12_Witness ==
    /\ Len(hist.axes) = 2
    /\ hist.axes[2].printed
    /\ run.pc = "FINISHED"

-----------------------------------------------------------------------------
(* Vocabulary of the transform claims.                                     *)

\* The Position job's bake call is pending or has returned.
InPositionJob == run.pc \in {"baking", "saving"} /\ CurrentJob = "POSITION"

\* The object a copy was made of; an original is its own.
OriginalOf(o) == IF o = "srcDup" THEN "src" ELSE IF o = "tgtDup" THEN "tgt" ELSE o

(* C13: while the Position job has its object normalized, the object's     *)
(* world-space bounding box has its minimum corner at the origin and       *)
(* extent 1 on each axis.  Every object of the model is unrotated and      *)
(* unparented with extents of 2 or more.  Violated for an object away from *)
(* the origin: the box's minimum ends at location * (1 - scale_factor).    *)
C13_UnitCubeAtOrigin ==
    InPositionJob =>
        /\ bbox_world(scene, run.obj).bbox_min = Vec3(0, 0, 0)
        /\ bbox_world(scene, run.obj).bbox_size = Vec3(1, 1, 1)

(* C14: during a Position job the record kept for the normalized object is *)
(* the location and scale it had before the job, and between jobs and      *)
(* after a run that did not raise every object has the location and scale  *)
(* it had before the run (a copy those of its original) and no record is   *)
(* kept: normalize followed by revert gives back what was there.           *)
C14_NormalizeRevertRoundTrip ==
    /\ InPositionJob =>
          /\ scene.original_data[run.obj]
                 = << pre.transform[OriginalOf(run.obj)] >>
          /\ \A o \in scene.objects \ {run.obj} :
                 scene.transform[o] = pre.transform[OriginalOf(o)]
    /\ run.pc \in {"loop", "FINISHED", "CANCELLED"} =>
          /\ \A o \in scene.objects :
                 scene.transform[o] = pre.transform[OriginalOf(o)]
          /\ \A o \in Objs : scene.original_data[o] = << >>

(* A Position job has completed on an object that was away from the origin *)
(* and whose normalized transform differed from its own.                   *)
C14_Witness ==
    /\ run.pc = "loop"
    /\ "POSITION" \in Elems(hist.restored)
    /\ run.obj \in scene.objects
    /\ pre.transform[OriginalOf(run.obj)].location # Vec3(0, 0, 0)
    /\ normalize_to_unit_cube(scene, run.obj).transform[run.obj]
          # scene.transform[run.obj]

-----------------------------------------------------------------------------
(* C15: after any sequence of clicks on selected_to_active, single_object, *)
(* automatic_output_path and custom_output_path, exactly one flag of each  *)
(* pair is true.                                                           *)
C15_ExactlyOneOfEachPair ==
    /\ bake_settings.selected_to_active # bake_settings.single_object
    /\ bake_settings.automatic_output_path # bake_settings.custom_output_path

\* Both pairs have been flipped away from their defaults.
C15_Witness ==
    /\ bake_settings.single_object
    /\ ~bake_settings.selected_to_active
    /\ bake_settings.custom_output_path
    /\ ~bake_settings.automatic_output_path

-----------------------------------------------------------------------------
\* The naming flags that are set.
NamingCasesSet(bs) ==
    {c \in {"upper", "lower", "pascal"} :
        \/ c = "upper" /\ bs.naming_uppercase
        \/ c = "lower" /\ bs.naming_lowercase
        \/ c = "pascal" /\ bs.naming_pascalcase}

\* No letter of str is a capital.
IsLowerCase(str) == \A i \in 1..Len(str) : ~IsUpper(str[i])

(* C16: after any sequence of clicks on naming_uppercase, naming_lowercase *)
(* and naming_pascalcase at most one of the three is true, and a label     *)
(* formatted while none is true is in lower case.                          *)
C16_AtMostOneNamingCase ==
    /\ Cardinality(NamingCasesSet(bake_settings)) <= 1
    /\ NamingCasesSet(bake_settings) = {} =>
           \A i \in 1..Len(hist.outputs) :
               IsLowerCase(hist.outputs[i].bake_type_formatted)

\* A two-word label was formatted in custom mode with every flag cleared.
C16_Witness ==
    /\ NamingCasesSet(bake_settings) = {}
    /\ bake_settings.custom_output_path
    /\ \E i \in 1..Len(hist.outputs) :
           /\ hist.outputs[i].bake_type = "AO"
           /\ hist.outputs[i].bake_type_formatted # << >>

-----------------------------------------------------------------------------
\* The longest common leading substring of two names.
LongestCommonLeading(a, b) ==
    LET common(k) == k <= Len(a) /\ k <= Len(b) /\ SubSeq(a, 1, k) = SubSeq(b, 1, k)
        n == CHOOSE k \in 0..Len(a) :
                 common(k) /\ \A j \in (k + 1)..Len(a) : ~common(j)
    IN  SubSeq(a, 1, n)

\* str without the non-alphanumeric characters it ends with.
WithoutTrailingPunctuation(str) ==
    LET n == CHOOSE k \in 0..Len(str) :
                 /\ k > 0 => IsAlnum(str[k])
                 /\ \A j \in (k + 1)..Len(str) : ~IsAlnum(str[j])
    IN  SubSeq(str, 1, n)

\* The name stem as the documentation states it, for a set target.
StatedStem(bs, sc) ==
    IF bs.custom_output_path /\ bs.use_custom_name THEN bs.custom_name
    ELSE IF bs.source_object # NoObj /\ ~bs.single_object
    THEN WithoutTrailingPunctuation(
             LongestCommonLeading(sc.name[bs.source_object],
                                  sc.name[bs.target_object]))
    ELSE sc.name[bs.target_object]

(* C17: the name of every output is the common beginning of the source's   *)
(* and the target's name without its trailing non-alphanumerics when both  *)
(* are set and single-object mode is off, the target's name otherwise, and *)
(* the custom name in custom mode with the override enabled.               *)
C17_NameStem ==
    \A i \in 1..Len(hist.outputs) :
        hist.outputs[i].name = StatedStem(bake_settings, scene)

\* An output was named after a common beginning that ended in punctuation.
C17_Witness ==
    /\ bake_settings.source_object # NoObj
    /\ ~bake_settings.single_object
    /\ ~bake_settings.use_custom_name
    /\ Len(hist.outputs) > 0
    /\ hist.outputs[1].name # << >>
    /\ hist.outputs[1].name #
           LongestCommonLeading(scene.name["src"], scene.name["tgt"])

-----------------------------------------------------------------------------
\* The words of a map type's label.
LabelWords(bakeType) ==
    IF bakeType = "AO" THEN
        << << "A", "M", "B", "I", "E", "N", "T" >>,
           << "O", "C", "C", "L", "U", "S", "I", "O", "N" >> >>
    ELSE IF bakeType = "WORLD_SPACE_NORMAL" THEN
        << << "W", "O", "R", "L", "D" >>, << "S", "P", "A", "C", "E" >>,
           << "N", "O", "R", "M", "A", "L", "S" >> >>
    ELSE << selected_type_of(bakeType, << >>) >>

\* The words with sep between each two of them.
RECURSIVE JoinWith(_, _)
JoinWith(words, sep) ==
    IF Len(words) = 1 THEN Head(words)
    ELSE Head(words) \o sep \o JoinWith(Tail(words), sep)

\* The outputs resolved in automatic, respectively custom, output mode.
AutomaticOutputs ==
    {i \in 1..Len(hist.outputs) : bake_settings.automatic_output_path}

CustomOutputs ==
    {i \in 1..Len(hist.outputs) : bake_settings.custom_output_path}

(* C18: in automatic output mode, whatever the naming and separator        *)
(* settings, the file is <project>/Resources/<stem>/baked_maps/ followed   *)
(* by stem, "_", the lower-cased label with "_" inside, and ".png".        *)
C18_AutomaticPath ==
    \A i \in AutomaticOutputs :
        LET out == hist.outputs[i]
            stem == StatedStem(bake_settings, scene)
        IN  /\ PathParts(out.output_dir) =
                   PathParts(ProjectDir) \o
                       << << "R", "e", "s", "o", "u", "r", "c", "e", "s" >>,
                          stem,
                          << "b", "a", "k", "e", "d", "_", "m", "a", "p", "s" >> >>
            /\ out.output_file =
                   ProjectDir \o << "R", "e", "s", "o", "u", "r", "c", "e", "s", "/" >>
                       \o stem
                       \o << "/", "b", "a", "k", "e", "d", "_", "m", "a", "p", "s", "/" >>
                       \o stem \o << "_" >>
                       \o lower(JoinWith(LabelWords(out.bake_type), << "_" >>))
                       \o << ".", "p", "n", "g" >>

-----------------------------------------------------------------------------
\* base, then the stem if the object folder is enabled, then the subfolder
\* name if the subfolder is enabled, as path components.
FoldersUnder(base, bs, stem) ==
    PathParts(base)
        \o (IF bs.use_object_folder THEN << stem >> ELSE << >>)
        \o (IF bs.use_subfolder THEN << bs.subfolder_name >> ELSE << >>)

-----------------------------------------------------------------------------
\* The label in the naming case of bs, as the documentation states it.
StatedLabel(bs, bakeType) ==
    LET words == LabelWords(bakeType)
        sep == bs.mapname_separator
    IN  IF bs.naming_pascalcase
        THEN JoinWith([k \in 1..Len(words) |-> capitalize(words[k])], sep)
        ELSE IF bs.naming_uppercase THEN JoinWith(words, sep)
        ELSE lower(JoinWith(words, sep))

(* C20: in custom output mode lower case lower-cases the label, upper case *)
(* leaves it unchanged, and pascal case capitalizes each word and joins    *)
(* the words with the within-label separator, with no separator at the     *)
(* end, for every map type and every within-label separator.               *)
C20_CaseTransform ==
    \A i \in CustomOutputs :
        hist.outputs[i].bake_type_formatted =
            StatedLabel(bake_settings, hist.outputs[i].bake_type)

\* WORLD/SPACE/NORMALS was formatted in pascal case with separator ".".
C20_Witness ==
    /\ CustomOutputs # {}
    /\ bake_settings.naming_pascalcase
    /\ bake_settings.mapname_separator = << "." >>
    /\ hist.outputs[1].bake_type = "WORLD_SPACE_NORMAL"
    /\ hist.outputs[1].bake_type_formatted =
           << "W", "o", "r", "l", "d", ".", "S", "p", "a", "c", "e", ".",
              "N", "o", "r", "m", "a", "l", "s" >>

-----------------------------------------------------------------------------
(* C21: no two files written in a run have the same path, and a run that   *)
(* finishes has written exactly one file for every enabled map type, in    *)
(* every naming case, separator setting and output mode.                   *)
C21_OnePathPerMapType ==
    /\ \A i, j \in 1..Len(hist.written) :
           i # j => hist.written[i].output_file # hist.written[j].output_file
    /\ run.pc = "FINISHED" =>
           \A t \in bake_settings.enabled :
               Cardinality({i \in 1..Len(hist.written) :
                               hist.written[i].bake_type = t}) = 1

\* A run in custom mode and pascal case has written the files of two map
\* types, one of them with a label of several words.
C21_Witness ==
    /\ run.pc = "FINISHED"
    /\ bake_settings.custom_output_path
    /\ bake_settings.naming_pascalcase
    /\ Len(hist.written) = 2
    /\ "AO" \in bake_settings.enabled

-----------------------------------------------------------------------------
\* round(n / 100) for a natural n, halves to the even neighbour.
RoundedHundredth(n) ==
    LET down == n \div 100
        rest == n % 100
    IN  IF rest > 50 \/ (rest = 50 /\ down % 2 = 1) THEN down + 1 ELSE down

(* C22: the pixel margin set on the renderer is                            *)
(* round(resolution * percentage / 100).                                   *)
C22_MarginIsRounded ==
    scene.bake_margin # << >> =>
        scene.bake_margin[1] =
            RoundedHundredth(bake_settings.resolution
                                * bake_settings.margin_percentage)

-----------------------------------------------------------------------------
\* Both files gave a mesh.
BothImported == cli.lowpoly_file = "mesh" /\ cli.highpoly_file = "mesh"

\* run_xbake.py has come to its end.
CLIEnded == cli.pc \in {"quit", "crashed", "exit"}

(* C23: the command-line entry point calls the bake only when both meshes  *)
(* were imported, and when an import fails it calls no bake and prints a   *)
(* diagnostic.                                                             *)
C23_BakeOnlyAfterBothImports ==
    /\ cli.bake_calls > 0 => BothImported
    /\ (CLIEnded /\ cli.args /\ ~BothImported) =>
           cli.bake_calls = 0 /\ cli.printed # << >>

-----------------------------------------------------------------------------
\* A graph of the WorldSpaceNormal or the Position job is in place.
InAxialJob ==
    /\ run.pc \in {"baking", "saving"}
    /\ CurrentJob \in {"WORLD_SPACE_NORMAL", "POSITION"}

\* The component a subtract node is named after.
ComponentOf(node) ==
    IF node = "math_node_x" THEN "X"
    ELSE IF node = "math_node_y" THEN "Y" ELSE "Z"

\* The nodes wired for Right, Forward and Up.
WiredNodes == {run.in_right_node, run.in_forward_node, run.in_up_node}

(* C24: in both graphs a negative axis wired for Right, Forward or Up is a *)
(* subtract node that takes 1 minus the component of that same axis; a     *)
(* positive axis is the raw component.                                     *)
C24_NegativeAxisIsOneMinusSameAxis ==
    InAxialJob =>
        \A node \in WiredNodes \cap MathNodes :
            run.math_node_inputs[node] = << ComponentOf(node) >>

-----------------------------------------------------------------------------
\* The roles of a graph by the channel they are fed to.
RolesByChannel(i) ==
    [X |-> hist.axes[i].in_right_node,
     Y |-> hist.axes[i].in_forward_node,
     Z |-> hist.axes[i].in_up_node]

\* What enters the three channels of the i-th graph built.
Channels(i) == [X |-> hist.combine[i].X, Y |-> hist.combine[i].Y,
                Z |-> hist.combine[i].Z]

(* C25: for every (forward, up) pair the WorldSpaceNormal and the Position *)
(* graph of a run select the same node for each of Right, Forward and Up,  *)
(* and each graph feeds Right to the first, Forward to the second and Up   *)
(* to the third channel.                                                   *)
C25_SameAxesSameChannels ==
    /\ \A i \in 1..Len(hist.combine) : Channels(i) = RolesByChannel(i)
    /\ \A i, j \in 1..Len(hist.combine) : Channels(i) = Channels(j)

\* Both graphs were built for a pair with a negative axis.
C25_Witness ==
    /\ Len(hist.combine) = 2
    /\ hist.combine[1].bake_type = "POSITION"
    /\ hist.combine[2].bake_type = "WORLD_SPACE_NORMAL"
    /\ bake_settings.forward_axis = "NEG_X"
    /\ bake_settings.up_axis = "POS_Z"
    /\ hist.combine[2].Y = "math_node_x"


-----------------------------------------------------------------------------
SpecPasses == InitPasses /\ [][Next]_vars

\* The jobs of the run that have ended, by completion or by an exception
\* leaving the job.
EndedJobs ==
    {hist.started[k] : k \in {j \in 1..Len(hist.started) :
        \/ j < Len(hist.started)
        \/ run.pc \in {"loop", "FINISHED", "RAISED"}}}

CallsOf(bake_type) ==
    {k \in 1..Len(hist.bakeCalls) : hist.bakeCalls[k] = bake_type}

ConfiguredPasses ==
    [direct |-> bake_settings.direct, indirect |-> bake_settings.indirect]

\* C26: each Curvature, world-space-normal and Position job issues exactly
\* one bake call, that call runs with the direct and the indirect
\* contribution both off, and when the job has ended both flags equal the
\* configured values again, so that every later lit bake call runs with the
\* configured contributions.
C26_DerivedBakesAreUnlit ==
    /\ \A t \in DerivedTypes :
          /\ \A k \in CallsOf(t) :
                hist.passes[k] = [direct |-> FALSE, indirect |-> FALSE]
          /\ t \in EndedJobs => Cardinality(CallsOf(t)) = 1
    /\ hist.started # << >>
          /\ hist.started[Len(hist.started)] \in DerivedTypes
          /\ hist.started[Len(hist.started)] \in EndedJobs
       => PassesAtCall(scene) = ConfiguredPasses
    /\ \A k \in 1..Len(hist.bakeCalls) :
          hist.bakeCalls[k] \notin DerivedTypes
             => hist.passes[k] = ConfiguredPasses


-----------------------------------------------------------------------------
\* A job that bakes is under way: its graph is built, its image is not yet
\* saved and removed.
InBakingJob == run.pc \in {"baking", "saving"}

\* The object made active for the current phase: by the setup for the
\* unlit jobs, by the switch to the originals for the lit jobs.
PhaseObject == hist.activated[Len(hist.activated)]

\* C27: every job operates on the object made active for the current
\* phase: a UV job earlier in the run does not change which object a later
\* job normalizes, assigns materials to, names its image after or makes
\* active.
C27_JobsUseThePhaseObject ==
    InBakingJob => run.obj = PhaseObject


-----------------------------------------------------------------------------
\* execute has returned {'FINISHED'} or {'CANCELLED'}.
Returned == run.pc \in {"FINISHED", "CANCELLED"}

\* C28: whenever the operator returns FINISHED or CANCELLED, the render
\* engine is the engine that was set before the invocation.
C28_EngineRestoredOnReturn ==
    Returned => scene.engine = pre.engine


-----------------------------------------------------------------------------
NextRuns == Next \/ StartOver

SpecRuns == InitRuns /\ [][NextRuns]_vars

\* C29: across any sequence of runs, one whose Position bake fails between
\* normalize and revert included, the transform revert_normalization
\* restores is the one the object had before its first normalization: a
\* second normalization with no revert in between does not overwrite the
\* recorded original.
C29_RevertRestoresFirstOriginal ==
    /\ \A k \in 1..Len(hist.reverts) :
          hist.reverts[k].before = << hist.reverts[k].restored >>
    /\ \A o \in Objs :
          hist.before_normalize[o] # << >>
             => scene.original_data[o] = hist.before_normalize[o]


-----------------------------------------------------------------------------
\* The objects bpy.data.objects.remove was called on so far in the run.
Removed == {hist.removed[k] : k \in 1..Len(hist.removed)}

\* The objects the locals of execute refer to while it is running.
ObjectsInUse ==
    IF run.pc \in {"loop", "baking", "saving"}
    THEN {run.obj, run.user_obj, run.non_active_obj, run.source, run.target}
    ELSE {}

LitStarted(k) == ~IsUnlit(hist.started[k])

\* C30: no step of a run uses an object after it has been removed: once
\* the duplicates are removed at the first lit job, no later job or cleanup
\* step selects them, bakes them, assigns materials to them or removes them
\* again; the jobs that need the duplicates, the unlit ones, all come
\* before the lit ones.
C30_NoUseAfterRemoval ==
    /\ \A o \in Removed :
          /\ o \notin scene.objects
          /\ o \notin scene.selected
          /\ scene.active # o
          /\ scene.materials[o] = << >>
          /\ o \notin ObjectsInUse
    /\ \A j, k \in 1..Len(hist.removed) :
          hist.removed[j] = hist.removed[k] => j = k
    /\ \A j, k \in 1..Len(hist.started) :
          LitStarted(j) /\ ~LitStarted(k) => k < j
    /\ \A j, k \in 1..Len(map_types) :
          ~IsUnlit(map_types[j]) /\ IsUnlit(map_types[k]) => k < j

\* A lit job has baked and saved after the duplicates were removed at its
\* start, and the run has finished.
C30_Witness ==
    /\ run.pc = "FINISHED"
    /\ Removed = DupObjs
    /\ run.copydestroyed
    /\ \E k \in 1..Len(hist.saved) : ~IsUnlit(hist.saved[k])
    /\ \E k \in 1..Len(hist.saved) : IsUnlit(hist.saved[k])

=============================================================================
